---- MODULE Spec2Model ----
(***************************************************************************)
(* A model of CherryPickBot (src/main.py): the git command seam            *)
(* run_git_command, the commit range resolver, the branch safety           *)
(* controller, the cherry-pick sequencer and the orchestrating run().      *)
(*                                                                         *)
(* A CompletedProcess is a record [returncode, stdout, stderr]; stdout is  *)
(* the sequence of its non-blank lines, so "" is <<>>.                     *)
(***************************************************************************)
EXTENDS Integers, Sequences, FiniteSets, TLC

VARIABLES
    dry_run,        \* self.dry_run
    auto_confirm,   \* self.auto_confirm
    issued,         \* every argument vector handed to run_git_command, in order
    executed,       \* the argument vectors subprocess.run really ran, in order
    result,         \* the CompletedProcess the last run_git_command returned
    realResult,     \* what the process would return / returned for that vector
    pc,             \* the position of run() / main()
    success,        \* the value run() returns: "none" until it does
    create_pr,      \* run(create_pr=...)
    working_dir,    \* self.working_dir: "None", "tmp" or "repo"
    is_temp_dir,    \* self.is_temp_dir
    using_existing_repo,    \* self.using_existing_repo
    personal_repo,  \* self.personal_repo is set
    tmpDirExists,   \* the directory tempfile.mkdtemp made is on disk
    repoDirExists,  \* the caller's repository at repo_path is on disk
    realRange,      \* the commits of base..head in the source repository, oldest first
    commit_shas,    \* run()'s commit_shas
    localBranches,  \* branches of the local checkout
    remoteBranches, \* the remotes on which the branch source_branch_name exists
    currentBranch,  \* the branch checked out
    branchCommits,  \* commits cherry-picked onto source_branch_name so far
    pickInProgress, \* a cherry-pick is stopped in the working tree (CHERRY_PICK_HEAD)
    i,              \* cherry_pick_commits: the loop index (1-based)
    success_count,  \* cherry_pick_commits: success_count
    failed_commits, \* cherry_pick_commits: failed_commits (the shas)
    outcome,        \* per attempted commit: "Applied", "Conflicted", "OtherFailure"
    seqRet,         \* what cherry_pick_commits returned: "none" until it does
    interrupted,    \* a KeyboardInterrupt ended cherry_pick_commits
    safety,         \* what create_branch_safe met and did (history)
    seq_named,      \* the commit the sequencer's report names (line 920)
    run_named,      \* the commit run()'s failure report names (line 1358)
    ssh_result,     \* push_changes: ssh_result, the answer of the `ssh -T` probe
    token,          \* self.token, a sequence of characters; <<>> when there is none
    url,            \* the argument of hide_token_in_url
    safe_url,       \* what hide_token_in_url returned; <<>> before it has
    remote_urls,    \* the URL of the remotes pr-source and personal in the checkout:
                    \* "none", "https-url", "ssh-url", or "old-url" for one
                    \* that was there before the run
    api_gets,       \* how many GETs of the pull-request endpoint were sent
    api_response,   \* what the GET of step 6 answered; "none" before it
    pr_info,        \* run()'s pr_info: "none", or "fetched"
    orig_body,      \* len() of the body of the source pull request
    body_tail,      \* len() of the formatted body_tail; 0 when none was given
    posted,         \* the JSON data of the POST that creates the pull request
    written,        \* the directories and files the current operation created, in order
    pr_url,         \* run(pr_url=...), a sequence of pieces of text
    parsed,         \* what parse_pr_url returned or raised
    target_repo,    \* run(target_repo=...): the repository of the pull request or another
    ssh_repo        \* the repository of the SSH URL push_changes set; "none" before

seamVars == <<dry_run, auto_confirm, issued, executed, result, realResult>>
cfgVars == <<dry_run, auto_confirm, create_pr, token, url, safe_url>>
logVars == <<issued, executed, result, realResult, written>>
refVars == <<pr_url, parsed, target_repo, ssh_repo>>
apiVars == <<api_gets, api_response, pr_info, orig_body, body_tail, posted>>
botVars == <<working_dir, is_temp_dir, using_existing_repo, personal_repo, remote_urls>>
branchVars == <<localBranches, remoteBranches, currentBranch>>
pickVars == <<branchCommits, pickInProgress>>
loopVars == <<i, success_count, failed_commits, outcome, seqRet, interrupted, seq_named>>
vars == <<dry_run, auto_confirm, issued, executed, result, realResult, pc, success,
          create_pr, working_dir, is_temp_dir, using_existing_repo, personal_repo,
          tmpDirExists, repoDirExists, realRange, commit_shas, localBranches, remoteBranches,
          currentBranch, branchCommits, pickInProgress, i, success_count,
          failed_commits, outcome, seqRet, interrupted, safety, seq_named,
          run_named, ssh_result, token, url, safe_url, remote_urls, api_gets,
          api_response, pr_info, orig_body, body_tail, posted, written, pr_url, parsed,
          target_repo, ssh_repo>>

-----------------------------------------------------------------------------
(* Bounds *)

MaxCalls == 2       \* seam invocations in one behaviour of SeamSpec
MaxCommits == 3     \* commits in base..head
MaxTokenLen == 2    \* characters of a token of UrlSpec
MaxTail == 3        \* characters of the formatted body_tail in PrSpec
MaxUrlLen == 4      \* characters after the scheme of a URL of UrlSpec

-----------------------------------------------------------------------------
(* The seam: run_git_command *)

read_only_commands ==
    {"log", "show", "ls-remote", "remote", "branch", "merge-base", "fetch",
     "clone", "status", "diff", "rev-parse", "symbolic-ref"}

setup_commands == {"clone", "remote", "fetch"}

\* command = args[0] if len(args) > 0 else ""   (Python index 0 is TLA+ index 1)
CommandSecondWord(args) == IF Len(args) > 1 THEN args[2] ELSE ""
Command(args) == IF Len(args) > 0 THEN args[1] ELSE ""

\* subprocess.CompletedProcess(args, 0, "", "")
Synthetic == [returncode |-> 0, stdout |-> <<>>, stderr |-> ""]

\* Whether run_git_command hands the vector to subprocess.run.
RunsForReal(dry, args) ==
    \/ ~dry
    \/ Command(args) \in read_only_commands
    \/ Command(args) \in setup_commands

run_git_command(dry, args, real) ==
    IF RunsForReal(dry, args) THEN real ELSE Synthetic

\* The effect of one seam call on the two logs and on the last result.
Seam(args, real) ==
    /\ issued' = Append(issued, args)
    /\ executed' = IF RunsForReal(dry_run, args)
                   THEN Append(executed, args) ELSE executed
    /\ result' = run_git_command(dry_run, args, real)
    /\ realResult' = real
    /\ written' = written

\* Every shape of argument vector a call site of the program builds.
ArgvTable ==
    { <<"git", "clone", "url", ".">>,
      <<"git", "rev-parse", "--git-dir">>,
      <<"git", "remote", "-v">>,
      <<"git", "remote", "get-url", "r">>,
      <<"git", "remote", "add", "r", "url">>,
      <<"git", "remote", "set-url", "r", "url">>,
      <<"git", "branch", "--show-current">>,
      <<"git", "branch", "-D", "b">>,
      <<"git", "log", "base..head">>,
      <<"git", "show", "-s", "c1">>,
      <<"git", "show-ref", "--verify", "b">>,
      <<"git", "fetch", "r", "c1">>,
      <<"git", "ls-remote", "--heads", "r", "b">>,
      <<"git", "push", "r", ":b">>,
      <<"git", "push", "--set-upstream", "r", "b">>,
      <<"git", "checkout", "b">>,
      <<"git", "checkout", "-b", "b">>,
      <<"git", "cherry-pick", "c1">>,
      <<"git", "cherry-pick", "--abort">>,
      <<"git", "symbolic-ref", "--short", "refs/remotes/origin/HEAD">>,
      <<"git", "format-patch", "-1", "--stdout", "c1">>,
      <<"git", "pull", "origin", "b">>,
      <<"ssh", "-T", "git@host">> }

\* What the external process can answer.
RealResults ==
    { [returncode |-> 0, stdout |-> <<"line">>, stderr |-> ""],
      [returncode |-> 1, stdout |-> <<>>, stderr |-> "error"] }

-----------------------------------------------------------------------------
(* Text: a string is the sequence of its characters *)

\* `t in s`
Contains(s, t) == \E k \in 0..(Len(s) - Len(t)) : SubSeq(s, k + 1, k + Len(t)) = t

\* s.startswith(p)
StartsWith(s, p) == Len(p) <= Len(s) /\ SubSeq(s, 1, Len(p)) = p

\* s.replace(t, m) for a non-empty t: the occurrences from the left, not overlapping
RECURSIVE Replace(_, _, _)
Replace(s, t, m) ==
    IF Len(s) < Len(t) THEN s
    ELSE IF SubSeq(s, 1, Len(t)) = t
    THEN m \o Replace(SubSeq(s, Len(t) + 1, Len(s)), t, m)
    ELSE <<s[1]>> \o Replace(Tail(s), t, m)

\* the index at which t first starts in s, 0 when it does not occur
Find(s, t) ==
    IF Contains(s, t)
    THEN CHOOSE k \in 1..Len(s) :
            /\ SubSeq(s, k, k + Len(t) - 1) = t
            /\ \A j \in 1..(k - 1) : SubSeq(s, j, j + Len(t) - 1) # t
    ELSE 0

\* s.split(t, 1): the part before the first t and the part after it
SplitBefore(s, t) == SubSeq(s, 1, Find(s, t) - 1)
SplitAfter(s, t) == SubSeq(s, Find(s, t) + Len(t), Len(s))

HttpsScheme == <<"h", "t", "t", "p", "s", ":", "/", "/">>
HttpScheme == <<"h", "t", "t", "p", ":", "/", "/">>
SchemeSep == <<":", "/", "/">>
At == <<"@">>
TOKEN_HIDDEN == <<"[", "T", "O", "K", "E", "N", "_", "H", "I", "D", "D", "E", "N", "]">>
AUTH_HIDDEN == <<"[", "A", "U", "T", "H", "_", "H", "I", "D", "D", "E", "N", "]">>

\* hide_token_in_url(url) with self.token = tok
hide_token_in_url(tok, u) ==
    IF u = <<>> THEN u
    ELSE IF tok # <<>> /\ Contains(u, tok) THEN Replace(u, tok, TOKEN_HIDDEN)
    ELSE IF StartsWith(u, HttpsScheme) /\ Contains(u, At)
    THEN LET prefix == SplitBefore(u, At)
             suffix == SplitAfter(u, At)
         IN  IF Contains(prefix, SchemeSep)
             THEN SplitBefore(prefix, SchemeSep) \o SchemeSep \o AUTH_HIDDEN \o At \o suffix
             ELSE AUTH_HIDDEN \o At \o suffix
    ELSE u

\* a token of a run
ActiveToken == <<"t", "o", "k">>

HostAndPath == <<"h", "o", "s", "t", "/", "r", ".", "g", "i", "t">>

\* _get_repo_remote_url(platform, target_repo, token)
get_repo_remote_url(tok) ==
    IF tok # <<>>
    THEN HttpsScheme \o <<"o", "a", "u", "t", "h", "2", ":">> \o tok \o At \o HostAndPath
    ELSE HttpsScheme \o HostAndPath

\* _get_repo_remote_ssh_url(platform, target_repo)
get_repo_remote_ssh_url ==
    <<"g", "i", "t", "@", "h", "o", "s", "t", ":", "r", ".", "g", "i", "t">>

-----------------------------------------------------------------------------
(* parse_pr_url: a reference is a sequence of pieces of text; the scheme, the
   host and the word before the number are one piece each, "/" is a piece, and
   the other pieces are single characters *)

Digits == {"0", "1", "2"}

\* the three patterns, in the order parse_pr_url tries them
Patterns ==
    <<[platform |-> "github", host |-> "github.com", word |-> "pull"],
      [platform |-> "gitee", host |-> "gitee.com", word |-> "pulls"],
      [platform |-> "atomgit", host |-> "atomgit.com", word |-> "pulls"]>>

\* [^/]+ and \d+ are greedy: how many pieces from index k on are in the class
RECURSIVE RunLen(_, _, _)
RunLen(s, k, digit) ==
    IF k > Len(s) THEN 0
    ELSE IF (digit /\ s[k] \in Digits) \/ (~digit /\ s[k] # "/")
    THEN 1 + RunLen(s, k + 1, digit)
    ELSE 0

\* int(pr_num)
RECURSIVE ToInt(_)
ToInt(ds) ==
    IF ds = <<>> THEN 0
    ELSE LET d == ds[Len(ds)]
         IN  10 * ToInt(SubSeq(ds, 1, Len(ds) - 1))
                + (IF d = "0" THEN 0 ELSE IF d = "1" THEN 1 ELSE 2)

At0(s, k) == IF k \in DOMAIN s THEN s[k] ELSE ""

\* re.match(pattern, pr_url): the pattern from the start of the text, whatever
\* follows the number
Match(pat, s) ==
    LET o == RunLen(s, 4, FALSE)
        r == RunLen(s, 5 + o, FALSE)
        w == 6 + o + r
        d == RunLen(s, w + 2, TRUE)
    IN  [matched |-> /\ At0(s, 1) \in {"https://", "http://"}
                     /\ At0(s, 2) = pat.host
                     /\ At0(s, 3) = "/"
                     /\ o > 0
                     /\ At0(s, 4 + o) = "/"
                     /\ r > 0
                     /\ At0(s, 5 + o + r) = "/"
                     /\ At0(s, w) = pat.word
                     /\ At0(s, w + 1) = "/"
                     /\ d > 0,
         owner |-> SubSeq(s, 4, 3 + o),
         repo |-> SubSeq(s, 5 + o, 4 + o + r),
         number |-> ToInt(SubSeq(s, w + 2, w + 1 + d))]

\* raise ValueError(...)
ValueError == [platform |-> "ValueError", owner |-> <<>>, repo |-> <<>>, number |-> 0]
\* parse_pr_url was not called yet
NotParsed == [platform |-> "none", owner |-> <<>>, repo |-> <<>>, number |-> 0]

RECURSIVE FirstMatch(_, _)
FirstMatch(k, s) ==
    IF k > Len(Patterns) THEN ValueError
    ELSE LET m == Match(Patterns[k], s)
         IN  IF m.matched
             THEN [platform |-> Patterns[k].platform, owner |-> m.owner, repo |-> m.repo,
                   number |-> m.number]
             ELSE FirstMatch(k + 1, s)

parse_pr_url(s) == FirstMatch(1, s)

\* a reference put together from its parts
RefOf(scheme, host, owner, repo, word, num, suffix) ==
    <<scheme, host, "/">> \o owner \o <<"/">> \o repo \o <<"/", word, "/">>
        \o num \o suffix

GoodRef == RefOf("https://", "github.com", <<"o">>, <<"r">>, "pull", <<"1">>, <<>>)
BadRef == RefOf("https://", "github.com", <<"o">>, <<"r">>, "issues", <<"1">>, <<>>)

-----------------------------------------------------------------------------
(* Names and values of the run *)

\* the characters of an argument word; "https-url" and "ssh-url" stand for the
\* two URLs a run builds, any other word holds no URL
Text(word) ==
    IF word = "https-url" THEN get_repo_remote_url(token)
    ELSE IF word = "ssh-url" THEN get_repo_remote_ssh_url
    ELSE <<word>>

SourceBranch == "cherry-pick-pr"    \* source_branch_name, the new branch
TargetBranch == "target"            \* target_branch
DefaultBranch == "main"             \* the branch a clone checks out
source_remote_name == "pr-source"
personal_remote_name == "personal"
Origin == "origin"
Remotes == {Origin, source_remote_name, personal_remote_name}

Sha(k) == "c" \o ToString(k)
Range(n) == [k \in 1..n |-> Sha(k)]
Reversed(s) == [k \in 1..Len(s) |-> s[Len(s) + 1 - k]]

FakeShas == <<"a1b2c3d4", "f1e2d3c4">>      \* the two made-up shas of line 674

Ok(out) == [returncode |-> 0, stdout |-> out, stderr |-> ""]
Err(msg) == [returncode |-> 1, stdout |-> <<>>, stderr |-> msg]
Answer(ok, out) == IF ok THEN Ok(out) ELSE Err("error")
Call(args, real) == [args |-> args, real |-> real]

\* The invocations of one operation, in order; the logs restart at each operation.
\* files: what the operation created on disk beside them
IssueWriting(calls, files) ==
    LET argvs == [k \in 1..Len(calls) |-> calls[k].args]
        last == calls[Len(calls)]
    IN  /\ issued' = argvs
        /\ executed' = SelectSeq(argvs, LAMBDA a : RunsForReal(dry_run, a))
        /\ result' = run_git_command(dry_run, last.args, last.real)
        /\ realResult' = last.real
        /\ written' = files

Issue(calls) == IssueWriting(calls, <<>>)

NoCalls ==
    /\ issued' = <<>>
    /\ executed' = <<>>
    /\ result' = Synthetic
    /\ realResult' = Synthetic
    /\ written' = <<>>

\* What the seam returns for a vector in this run.
Git(args, real) == run_git_command(dry_run, args, real)

\* push_changes has not probed SSH
NoProbe == [returncode |-> -1, stdout |-> <<>>, stderr |-> ""]

\* the remotes named pr-source and personal of a checkout
RemoteNames == {source_remote_name, personal_remote_name}
NoRemotes == [name \in RemoteNames |-> "none"]
\* both already defined in the caller's repository, with a URL that holds no
\* credential
StaleRemotes == [name \in RemoteNames |-> "old-url"]

\* the fields get_pr_info_from_api_extended requires of the response
RequiredFields == {"head.ref", "base.ref", "head.sha", "base.sha"}
\* an answer of the pull-request endpoint: not 2xx, or 2xx with the required
\* fields its JSON holds: all of them, or all but one
Responses ==
    {[ok |-> FALSE, fields |-> {}]}
        \cup {[ok |-> TRUE, fields |-> RequiredFields \ missing] :
                    missing \in {{}} \cup {{f} : f \in RequiredFields}}
\* no GET was answered yet
NoResponse == [ok |-> FALSE, fields |-> {"none"}]

\* no POST was sent
NoPost == [head |-> <<>>, base |-> "none", body |-> <<>>, len |-> 0]

NoSafety ==
    [hadLocal |-> FALSE, hadRemote |-> FALSE, listed |-> FALSE, refused |-> FALSE,
     deletedLocal |-> FALSE, deletedRemote |-> FALSE, created |-> FALSE,
     returned |-> "none"]

IdleRun ==
    /\ pc = "setup"
    /\ success = "none"
    /\ working_dir = "None"
    /\ is_temp_dir = FALSE
    /\ using_existing_repo = FALSE
    /\ personal_repo = FALSE
    /\ tmpDirExists = FALSE
    /\ repoDirExists = TRUE
    /\ commit_shas = <<>>
    /\ currentBranch = DefaultBranch
    /\ branchCommits = <<>>
    /\ pickInProgress = FALSE
    /\ i = 0
    /\ success_count = 0
    /\ failed_commits = <<>>
    /\ outcome = <<>>
    /\ seqRet = "none"
    /\ interrupted = FALSE
    /\ safety = NoSafety
    /\ seq_named = "none"
    /\ run_named = "none"
    /\ ssh_result = NoProbe
    /\ api_gets = 0
    /\ api_response = NoResponse
    /\ pr_info = "none"
    /\ posted = NoPost

EmptyLogs ==
    /\ issued = <<>>
    /\ executed = <<>>
    /\ result = Synthetic
    /\ realResult = Synthetic
    /\ written = <<>>

-----------------------------------------------------------------------------
(* SeamSpec: run_git_command called with any sequence of argument vectors *)

SeamInit ==
    /\ dry_run \in BOOLEAN
    /\ auto_confirm = FALSE
    /\ create_pr = FALSE
    /\ token = <<>>
    /\ url = <<>>
    /\ safe_url = <<>>
    /\ pr_url = GoodRef
    /\ parsed = NotParsed
    /\ target_repo = "pr-repo"
    /\ ssh_repo = "none"
    /\ orig_body = 1
    /\ body_tail = 1
    /\ remote_urls = NoRemotes
    /\ EmptyLogs
    /\ IdleRun
    /\ realRange = <<>>
    /\ localBranches = {DefaultBranch}
    /\ remoteBranches = {}

SeamCall ==
    /\ Len(issued) < MaxCalls
    /\ \E args \in ArgvTable, real \in RealResults : Seam(args, real)
    /\ UNCHANGED <<cfgVars, pc, success, botVars, tmpDirExists, repoDirExists, realRange, commit_shas,
                   branchVars, pickVars, loopVars, safety, run_named, ssh_result, apiVars, refVars>>

SeamNext == SeamCall

SeamSpec == SeamInit /\ [][SeamNext]_vars

-----------------------------------------------------------------------------
(* run(): steps 1 to 10 *)

Init ==
    /\ dry_run \in BOOLEAN
    /\ auto_confirm \in BOOLEAN
    /\ create_pr \in BOOLEAN
    /\ token \in {<<>>, ActiveToken}
    /\ url = <<>>
    /\ safe_url = <<>>
    /\ pr_url \in {GoodRef, BadRef}
    /\ parsed = NotParsed
    /\ target_repo = "pr-repo"
    /\ ssh_repo = "none"
    /\ orig_body = 1
    /\ body_tail = 1
    /\ remote_urls \in {NoRemotes, StaleRemotes}
    /\ EmptyLogs
    /\ IdleRun
    /\ realRange \in {Range(n) : n \in 0..MaxCommits}
    \* the caller's repository at repo_path, when there is one
    /\ localBranches \in {{DefaultBranch}, {DefaultBranch, SourceBranch}}
    /\ remoteBranches \in SUBSET Remotes

Go(next) == pc' = next /\ success' = success
\* `return False` inside run()'s try: the finally clause runs next
Fail == pc' = "finally" /\ success' = "False"

\* run(repo_path=...): no path, a git repository, a directory that is not one,
\* a path that does not exist
RepoPaths == {"none", "repo", "dir", "missing"}

SetupFlagsBoth(repo_path) ==
    [is_temp_dir |-> TRUE, using_existing_repo |-> repo_path = "repo"]

\* the two flags setup_working_directory assigns next to working_dir: the
\* adopted repository on one side, a new temporary directory on the other
SetupFlags(repo_path) ==
    [is_temp_dir |-> repo_path # "repo", using_existing_repo |-> repo_path = "repo"]

\* setup_working_directory(repo_path), with tempfile.mkdtemp succeeding or raising
setup_working_directory(repo_path, mkdtemp_ok) ==
    IF dry_run
    THEN Go("parse") /\ UNCHANGED <<botVars, tmpDirExists>>
    ELSE IF repo_path = "repo"
    THEN /\ working_dir' = "repo"
         /\ using_existing_repo' = SetupFlags(repo_path).using_existing_repo
         /\ is_temp_dir' = SetupFlags(repo_path).is_temp_dir
         /\ Go("parse")
         /\ UNCHANGED <<personal_repo, tmpDirExists, remote_urls>>
    ELSE IF mkdtemp_ok
    THEN /\ working_dir' = "tmp"
         /\ is_temp_dir' = SetupFlags(repo_path).is_temp_dir
         /\ using_existing_repo' = SetupFlags(repo_path).using_existing_repo
         /\ tmpDirExists' = TRUE
         /\ Go("parse")
         /\ remote_urls' = NoRemotes       \* an empty directory
         /\ UNCHANGED personal_repo
    ELSE Fail /\ UNCHANGED <<botVars, tmpDirExists>>

\* 1. setup_working_directory(repo_path)
SetupWorkingDirectory ==
    /\ pc = "setup"
    /\ \E repo_path \in RepoPaths, mkdtemp_ok \in BOOLEAN :
        setup_working_directory(repo_path, mkdtemp_ok)
    /\ UNCHANGED <<cfgVars, logVars, repoDirExists, realRange, commit_shas, branchVars,
                   pickVars, loopVars, safety, run_named, ssh_result, apiVars, refVars>>

\* 2. parse_pr_url(pr_url): ValueError ends the run
ParsePrUrl ==
    /\ pc = "parse"
    /\ parsed' = parse_pr_url(pr_url)
    /\ IF parsed' = ValueError THEN Fail ELSE Go("clone")
    /\ UNCHANGED <<cfgVars, logVars, botVars, tmpDirExists, repoDirExists, realRange, commit_shas,
                   branchVars, pickVars, loopVars, safety, run_named, ssh_result, apiVars,
                   pr_url, target_repo, ssh_repo>>

\* check_existing_repo_alignment(target_repo)
AlignmentCalls(revparse_ok, remote_ok) ==
    LET c1 == Call(<<"git", "rev-parse", "--git-dir">>, Answer(revparse_ok, <<".git">>))
        c2 == Call(<<"git", "remote", "-v">>, Answer(remote_ok, <<"origin url">>))
        c3 == Call(<<"git", "remote", "get-url", Origin>>, Ok(<<"url">>))
        c4 == Call(<<"git", "branch", "--show-current">>, Ok(<<currentBranch>>))
        c5 == Call(<<"git", "log", "-1">>, Ok(<<"head">>))
    IN  IF Git(c1.args, c1.real).returncode # 0 THEN <<c1>>
        ELSE IF Git(c2.args, c2.real).returncode # 0 THEN <<c1, c2>>
        ELSE <<c1, c2, c3, c4, c5>>

\* 3. clone_or_init_repo(target_repo)
CloneCallsNoRetry(https_ok, ssh_ok) ==
    <<Call(<<"git", "clone", "https-url", ".">>, Answer(https_ok, <<>>))>>
CloneCalls(https_ok, ssh_ok) ==
    LET c1 == Call(<<"git", "clone", "https-url", ".">>, Answer(https_ok, <<>>))
        c2 == Call(<<"git", "clone", "ssh-url", ".">>, Answer(ssh_ok, <<>>))
    IN  IF Git(c1.args, c1.real).returncode = 0 \/ dry_run THEN <<c1>> ELSE <<c1, c2>>

CloneOrInitRepo ==
    /\ pc = "clone"
    /\ \E ok1 \in BOOLEAN, ok2 \in BOOLEAN :
        IF using_existing_repo
        THEN LET calls == AlignmentCalls(ok1, ok2)
             IN  /\ Issue(calls)
                 /\ IF Len(calls) = 5 THEN Go("source_remote") ELSE Fail
                 /\ UNCHANGED localBranches
        ELSE LET calls == CloneCalls(ok1, ok2)
                 last == calls[Len(calls)]
                 cloned == Git(last.args, last.real).returncode = 0
             IN  /\ Issue(calls)
                 /\ IF cloned \/ dry_run THEN Go("source_remote") ELSE Fail
                 \* a fresh clone has the default branch only
                 /\ localBranches' = IF cloned /\ RunsForReal(dry_run, last.args)
                                     THEN {DefaultBranch} ELSE localBranches
    /\ UNCHANGED <<cfgVars, botVars, tmpDirExists, repoDirExists, realRange, commit_shas,
                   remoteBranches, currentBranch, pickVars, loopVars, safety, run_named, ssh_result, apiVars, refVars>>

\* result.stdout != remote_url: the output of `git remote get-url` ends with a
\* newline and remote_url does not, so the two strings never compare equal
StdoutIsUrl(r) == FALSE

\* setup_remote(remote_name, platform, repo, token)
UrlAfterSetup(name, calls) ==
    LET last == calls[Len(calls)]
        r == Git(last.args, last.real)
    IN  IF Len(calls) > 1 /\ RunsForReal(dry_run, last.args) /\ r.returncode = 0
        THEN last.args[Len(last.args)]
        ELSE remote_urls[name]

SetupRemoteCalls(name, has_remote, https_ok, ssh_ok) ==
    LET c1 == Call(<<"git", "remote", "get-url", name>>, Answer(has_remote, <<"https-url">>))
        r1 == Git(c1.args, c1.real)
        remote_cmd == IF r1.returncode # 0 THEN "add" ELSE "set-url"
        c2 == Call(<<"git", "remote", remote_cmd, name, "https-url">>, Answer(https_ok, <<>>))
        c3 == Call(<<"git", "remote", remote_cmd, name, "ssh-url">>, Answer(ssh_ok, <<>>))
    IN  IF r1.returncode = 0 /\ StdoutIsUrl(r1) THEN <<c1>>
        ELSE IF Git(c2.args, c2.real).returncode = 0 THEN <<c1, c2>>
        ELSE <<c1, c2, c3>>

SetupRemoteReturns(calls) ==
    LET last == calls[Len(calls)]
    IN  \/ Len(calls) < 3
        \/ Git(last.args, last.real).returncode = 0
        \/ dry_run

\* 4. setup_source_remote()
SetupSourceRemote ==
    /\ pc = "source_remote"
    /\ \E ok1 \in BOOLEAN, ok2 \in BOOLEAN :
        LET has == remote_urls[source_remote_name] # "none"
            calls == SetupRemoteCalls(source_remote_name, has, ok1, ok2)
        IN  /\ Issue(calls)
            /\ remote_urls' = [remote_urls EXCEPT ![source_remote_name] =
                                    UrlAfterSetup(source_remote_name, calls)]
            /\ IF SetupRemoteReturns(calls) THEN Go("personal_remote") ELSE Fail
    /\ UNCHANGED <<cfgVars, working_dir, is_temp_dir, using_existing_repo, personal_repo,
                   tmpDirExists, repoDirExists, realRange, commit_shas, branchVars,
                   pickVars, loopVars, safety, run_named, ssh_result, apiVars, refVars>>

\* 5. setup_personal_remote(), when run() was given a personal_repo
SetupPersonalRemote ==
    /\ pc = "personal_remote"
    /\ \E given \in BOOLEAN, ok1 \in BOOLEAN, ok2 \in BOOLEAN :
        IF given
        THEN LET has == remote_urls[personal_remote_name] # "none"
                 calls == SetupRemoteCalls(personal_remote_name, has, ok1, ok2)
             IN  /\ Issue(calls)
                 /\ personal_repo' = SetupRemoteReturns(calls)
                 /\ remote_urls' = [remote_urls EXCEPT ![personal_remote_name] =
                                         UrlAfterSetup(personal_remote_name, calls)]
        ELSE NoCalls /\ personal_repo' = FALSE /\ UNCHANGED remote_urls
    /\ Go("api")
    /\ UNCHANGED <<cfgVars, working_dir, is_temp_dir, using_existing_repo, tmpDirExists,
                   repoDirExists, realRange, commit_shas, branchVars, pickVars, loopVars, safety,
                   run_named, ssh_result, apiVars, refVars>>

\* 6. get_pr_info_from_api_extended(): any exception ends the run
AllPresentAlways(fields) == TRUE
AllPresent(fields) == RequiredFields \subseteq fields

\* get_pr_info_from_api raises on a non-2xx answer, get_pr_info_from_api_extended
\* when a required field is missing
ExtendedRaises(resp) == ~resp.ok \/ ~AllPresent(resp.fields)

GetPrInfoExtended ==
    /\ pc = "api"
    /\ \E resp \in Responses :
        /\ api_response' = resp
        /\ api_gets' = api_gets + 1
        /\ IF ExtendedRaises(resp) THEN Fail ELSE Go("commits")
    /\ NoCalls
    /\ UNCHANGED <<cfgVars, botVars, tmpDirExists, repoDirExists, realRange, commit_shas, branchVars,
                   pickVars, loopVars, safety, run_named, ssh_result, pr_info, orig_body,
                   body_tail, posted, refVars>>

\* get_commits_from_git(head_commit_sha, base_commit_sha): the calls it makes up to
\* and including `git log`
RangeCalls(base_ok, head_ok, log_ok) ==
    LET c1 == Call(<<"git", "fetch", source_remote_name, "base">>, Answer(base_ok, <<>>))
        c2 == Call(<<"git", "fetch", source_remote_name, "head">>, Answer(head_ok, <<>>))
        \* git log prints base..head newest first
        c3 == Call(<<"git", "log", "--pretty=format:%H", "base..head">>,
                   Answer(log_ok, Reversed(realRange)))
    IN  IF Git(c1.args, c1.real).returncode # 0 THEN <<c1>>
        ELSE IF Git(c2.args, c2.real).returncode # 0 THEN <<c1, c2>>
        ELSE <<c1, c2, c3>>

\* Whether the try block raised: a failed fetch, a failed log, or no sha in the output
RangeRaised(calls) ==
    LET last == calls[Len(calls)]
        r == Git(last.args, last.real)
    IN  Len(calls) < 3 \/ r.returncode # 0 \/ r.stdout = <<>>

\* The list it returns when it returns one
get_commits_from_git(calls) ==
    LET last == calls[Len(calls)]
    IN  IF RangeRaised(calls)
        THEN FakeShas       \* the except clause, reached with dry_run only
        ELSE Reversed(Git(last.args, last.real).stdout)

ShowCalls(shas) ==
    [k \in 1..Len(shas) |-> Call(<<"git", "show", "-s", "--format=%s", shas[k]>>, Ok(<<"subject">>))]

\* 7. commit_shas = get_commits_from_git(...)
GetCommitsFromGit ==
    /\ pc = "commits"
    /\ \E base_ok \in BOOLEAN, head_ok \in BOOLEAN, log_ok \in BOOLEAN :
        LET calls == RangeCalls(base_ok, head_ok, log_ok)
            raised == RangeRaised(calls)
            shas == get_commits_from_git(calls)
        IN  IF raised /\ ~dry_run
            THEN Issue(calls) /\ Fail /\ UNCHANGED commit_shas
            ELSE /\ Issue(IF raised THEN calls ELSE calls \o ShowCalls(shas))
                 /\ commit_shas' = shas
                 /\ IF shas = <<>> THEN Fail ELSE Go("patch")
    /\ UNCHANGED <<cfgVars, botVars, tmpDirExists, repoDirExists, realRange, branchVars, pickVars,
                   loopVars, safety, run_named, ssh_result, apiVars, refVars>>

\* generate_patch_file(commit_shas, patch_file) in real mode
PatchCalls(shape, ok) ==
    IF shape = "dir"
    THEN <<Call(<<"git", "show", "-s", "--format=%s", commit_shas[1]>>, Ok(<<"subject">>)),
           Call(<<"git", "format-patch", "-1", "--stdout", commit_shas[1]>>, Answer(ok, <<"patch">>))>>
         \o (IF ok THEN [k \in 1..(2 * (Len(commit_shas) - 1)) |->
                          IF k % 2 = 1
                          THEN Call(<<"git", "show", "-s", "--format=%s", commit_shas[(k + 3) \div 2]>>,
                                    Ok(<<"subject">>))
                          ELSE Call(<<"git", "format-patch", "-1", "--stdout", commit_shas[(k + 2) \div 2]>>,
                                    Ok(<<"patch">>))]
             ELSE <<>>)
    ELSE IF Len(commit_shas) = 1
    THEN <<Call(<<"git", "format-patch", "-1", "--stdout", commit_shas[1]>>, Answer(ok, <<"patch">>))>>
    ELSE <<Call(<<"git", "format-patch", "first^..last", "--stdout">>, Answer(ok, <<"patch">>))>>

\* f"{i:04d}", one digit per place
Pad4(num) == <<(num \div 1000) % 10, (num \div 100) % 10, (num \div 10) % 10, num % 10>>

PositionIn(list, sha) == CHOOSE k \in DOMAIN list : list[k] = sha

FormatPatchRangeOpen(first, last) ==
    SubSeq(realRange, PositionIn(realRange, first) + 1, PositionIn(realRange, last))

\* what `git format-patch first^..last --stdout` prints patches of: the commits
\* after the parent of first, up to last
FormatPatchRange(first, last) ==
    SubSeq(realRange, PositionIn(realRange, first), PositionIn(realRange, last))

\* os.makedirs(patch_dir) when the directory is missing
PatchDir == [kind |-> "dir", path |-> "patch_dir", index |-> <<>>, commits |-> <<>>]

\* the files generate_patch_file opens for writing, in order
PatchFiles(shape, ok) ==
    IF ~ok THEN <<>>
    ELSE IF shape = "dir"
    THEN [k \in 1..Len(commit_shas) |->
            [kind |-> "file", path |-> "patch_dir/index-subject.patch", index |-> Pad4(k),
             commits |-> <<commit_shas[k]>>]]
    ELSE <<[kind |-> "file", path |-> "patch_file", index |-> <<>>,
            commits |-> IF Len(commit_shas) = 1
                        THEN <<commit_shas[1]>>
                        ELSE FormatPatchRange(commit_shas[1], commit_shas[Len(commit_shas)])]>>

PatchWritesDirFirst(dry, shape, ok, dir_exists) ==
    (IF dir_exists THEN <<>> ELSE <<PatchDir>>) \o (IF dry THEN <<>> ELSE PatchFiles(shape, ok))

\* what generate_patch_file creates on disk; in dry-run it returns before any
\* of it
PatchWrites(dry, shape, ok, dir_exists) ==
    IF dry THEN <<>>
    ELSE (IF dir_exists THEN <<>> ELSE <<PatchDir>>) \o PatchFiles(shape, ok)

\* generate_patch_file(commit_shas, patch_file): patch_file names a file or is
\* directory-shaped, its directory exists or not, format-patch succeeds or not
generate_patch_file(patch_file, ok, dir_exists) ==
    IF dry_run
    THEN /\ IssueWriting(ShowCalls(commit_shas), PatchWrites(dry_run, patch_file, ok, dir_exists))
         /\ Go("pr_info")
    ELSE /\ IssueWriting(PatchCalls(patch_file, ok), PatchWrites(dry_run, patch_file, ok, dir_exists))
         /\ IF ok THEN Go("pr_info") ELSE Fail

\* 8. generate_patch_file, when run() was given a patch_file
GeneratePatchFile ==
    /\ pc = "patch"
    /\ \/ NoCalls /\ Go("pr_info")
       \/ \E patch_file \in {"file", "dir"}, ok \in BOOLEAN, dir_exists \in BOOLEAN :
            generate_patch_file(patch_file, ok, dir_exists)
    /\ UNCHANGED <<cfgVars, botVars, tmpDirExists, repoDirExists, realRange, commit_shas, branchVars,
                   pickVars, loopVars, safety, run_named, ssh_result, apiVars, refVars>>

\* 9. pr_info = get_pr_info_from_api() when create_pr; a failure is only reported
GetPrInfo ==
    /\ pc = "pr_info"
    /\ NoCalls
    /\ Go("target_branch")
    /\ IF create_pr
       THEN \E ok \in BOOLEAN :
               /\ api_gets' = api_gets + 1
               /\ pr_info' = IF ok THEN "fetched" ELSE "none"
       ELSE UNCHANGED <<api_gets, pr_info>>
    /\ UNCHANGED <<cfgVars, botVars, tmpDirExists, repoDirExists, realRange, commit_shas, branchVars,
                   pickVars, loopVars, safety, run_named, ssh_result, api_response, orig_body,
                   body_tail, posted, refVars>>

\* checkout_or_create_branch(target_branch, create_new=True, based_on=default_branch)
\* in real mode
TargetCalls(has_local, on_origin, ok) ==
    LET sym == Call(<<"git", "symbolic-ref", "--short", "refs/remotes/origin/HEAD">>,
                    Ok(<<"origin/main">>))
        ref == Call(<<"git", "show-ref", "--verify", TargetBranch>>, Answer(has_local, <<"ref">>))
        ls == Call(<<"git", "ls-remote", "--heads", Origin, TargetBranch>>,
                   Ok(IF on_origin THEN <<"ref">> ELSE <<>>))
        track == Call(<<"git", "checkout", "-b", TargetBranch, "origin/target">>, Answer(ok, <<>>))
        base == Call(<<"git", "show-ref", "--verify", DefaultBranch>>, Ok(<<"ref">>))
        tobase == Call(<<"git", "checkout", DefaultBranch>>, Ok(<<>>))
        new == Call(<<"git", "checkout", "-b", TargetBranch>>, Answer(ok, <<>>))
        switch == Call(<<"git", "checkout", TargetBranch>>, Answer(ok, <<>>))
    IN  IF has_local THEN <<sym, ref, switch>>
        ELSE IF on_origin THEN <<sym, ref, ls, track>>
        ELSE <<sym, ref, ls, base, tobase, new>>

\* 10. the target branch is checked out, created when it does not exist
CheckoutTargetBranch ==
    /\ pc = "target_branch"
    /\ \E named \in BOOLEAN, on_origin \in BOOLEAN, ok \in BOOLEAN :
        IF ~named THEN NoCalls /\ Fail /\ UNCHANGED branchVars
        ELSE IF dry_run
        THEN /\ Issue(<<Call(<<"git", "symbolic-ref", "--short", "refs/remotes/origin/HEAD">>,
                             Ok(<<"origin/main">>))>>)
             /\ Go("create_branch_safe")
             /\ UNCHANGED branchVars
        ELSE /\ Issue(TargetCalls(TargetBranch \in localBranches, on_origin, ok))
             /\ IF ok
                THEN /\ localBranches' = localBranches \cup {TargetBranch}
                     /\ currentBranch' = TargetBranch
                     /\ Go("create_branch_safe")
                ELSE /\ Fail
                     /\ UNCHANGED <<localBranches, currentBranch>>
             /\ UNCHANGED remoteBranches
    /\ UNCHANGED <<cfgVars, botVars, tmpDirExists, repoDirExists, realRange, commit_shas, pickVars,
                   loopVars, safety, run_named, ssh_result, apiVars, refVars>>

-----------------------------------------------------------------------------
(* 12. create_branch_safe(source_branch_name, target_branch), which starts with
   delete_existing_branch(source_branch_name) *)

\* remote_to_check = "origin"; if self.personal_repo: self.personal_remote_name
remote_to_check == IF personal_repo THEN personal_remote_name ELSE Origin

\* response != "y"
Refuses(response) == response # "y"

\* result.returncode == 0 and result.stdout.strip()
RemoteBranchFound(r) == r.returncode = 0 /\ r.stdout # <<>>

\* create_branch_safe returns False and run() returns False (lines 1349-1351)
SafetyContinues == Go("cherry_pick") /\ safety' = [safety EXCEPT !.returned = "False"]
SafetyFails == Fail /\ safety' = [safety EXCEPT !.returned = "False"]

\* entry of both functions; in real mode the local `git show-ref`
CreateBranchSafe ==
    /\ pc = "create_branch_safe"
    /\ IF dry_run
       THEN /\ NoCalls
            /\ safety' = [NoSafety EXCEPT !.returned = "True"]
            /\ Go("cherry_pick")
       ELSE LET has == SourceBranch \in localBranches
            IN  /\ Issue(<<Call(<<"git", "show-ref", "--verify", SourceBranch>>,
                                Answer(has, <<"ref">>))>>)
                /\ safety' = [NoSafety EXCEPT !.hadLocal = has,
                                              !.hadRemote = remote_to_check \in remoteBranches]
                /\ Go(IF ~has THEN "ls_remote"
                      ELSE IF auto_confirm THEN "branch_D" ELSE "local_prompt")
    /\ UNCHANGED <<cfgVars, botVars, tmpDirExists, repoDirExists, realRange, commit_shas, branchVars,
                   pickVars, loopVars, run_named, ssh_result, apiVars, refVars>>

\* input("... local branch exists, delete? (y/N)")
LocalPrompt ==
    /\ pc = "local_prompt"
    /\ \E response \in {"y", "n"} :
        IF Refuses(response)
        THEN Fail /\ safety' = [safety EXCEPT !.refused = TRUE, !.returned = "False"]
        ELSE Go("branch_D") /\ UNCHANGED safety
    /\ UNCHANGED <<cfgVars, logVars, botVars, tmpDirExists, repoDirExists, realRange, commit_shas,
                   branchVars, pickVars, loopVars, run_named, ssh_result, apiVars, refVars>>

\* git branch -D source_branch_name
DeleteLocalBranch ==
    /\ pc = "branch_D"
    /\ \E ok \in BOOLEAN :
        /\ Seam(<<"git", "branch", "-D", SourceBranch>>, Answer(ok, <<"Deleted">>))
        /\ IF ok
           THEN /\ localBranches' = localBranches \ {SourceBranch}
                /\ safety' = [safety EXCEPT !.deletedLocal = TRUE]
                /\ Go("ls_remote")
           ELSE SafetyFails /\ UNCHANGED localBranches
    /\ UNCHANGED <<cfgVars, botVars, tmpDirExists, repoDirExists, realRange, commit_shas, remoteBranches,
                   currentBranch, pickVars, loopVars, run_named, ssh_result, apiVars, refVars>>

\* git ls-remote --heads remote_to_check source_branch_name
ListRemoteBranch ==
    /\ pc = "ls_remote"
    /\ \E reachable \in BOOLEAN :
        LET real == Answer(reachable, IF remote_to_check \in remoteBranches
                                      THEN <<"sha refs/heads/cherry-pick-pr">> ELSE <<>>)
        IN  /\ Seam(<<"git", "ls-remote", "--heads", remote_to_check, SourceBranch>>, real)
            /\ safety' = [safety EXCEPT !.listed = reachable]
            /\ Go(IF ~RemoteBranchFound(real) THEN "checkout_base"
                  ELSE IF auto_confirm THEN "push_delete" ELSE "remote_prompt")
    /\ UNCHANGED <<cfgVars, botVars, tmpDirExists, repoDirExists, realRange, commit_shas, branchVars,
                   pickVars, loopVars, run_named, ssh_result, apiVars, refVars>>

\* input("... remote branch exists, delete? (y/N)")
RemotePrompt ==
    /\ pc = "remote_prompt"
    /\ \E response \in {"y", "n"} :
        IF Refuses(response)
        THEN Fail /\ safety' = [safety EXCEPT !.refused = TRUE, !.returned = "False"]
        ELSE Go("push_delete") /\ UNCHANGED safety
    /\ UNCHANGED <<cfgVars, logVars, botVars, tmpDirExists, repoDirExists, realRange, commit_shas,
                   branchVars, pickVars, loopVars, run_named, ssh_result, apiVars, refVars>>

\* git push remote_to_check :source_branch_name
DeleteRemoteBranch ==
    /\ pc = "push_delete"
    /\ \E ok \in BOOLEAN :
        /\ Seam(<<"git", "push", remote_to_check, ":" \o SourceBranch>>, Answer(ok, <<>>))
        /\ IF ok
           THEN /\ remoteBranches' = remoteBranches \ {remote_to_check}
                /\ safety' = [safety EXCEPT !.deletedRemote = TRUE]
                /\ Go("checkout_base")
           ELSE SafetyFails /\ UNCHANGED remoteBranches
    /\ UNCHANGED <<cfgVars, botVars, tmpDirExists, repoDirExists, realRange, commit_shas, localBranches,
                   currentBranch, pickVars, loopVars, run_named, ssh_result, apiVars, refVars>>

\* git checkout based_on
CheckoutBase ==
    /\ pc = "checkout_base"
    /\ \E ok \in BOOLEAN :
        /\ Seam(<<"git", "checkout", TargetBranch>>, Answer(ok, <<>>))
        /\ IF ok
           THEN currentBranch' = TargetBranch /\ Go("checkout_b") /\ UNCHANGED safety
           ELSE SafetyFails /\ UNCHANGED currentBranch
    /\ UNCHANGED <<cfgVars, botVars, tmpDirExists, repoDirExists, realRange, commit_shas, localBranches,
                   remoteBranches, pickVars, loopVars, run_named, ssh_result, apiVars, refVars>>

\* git checkout -b source_branch_name; git refuses a name that exists
CreateBranch ==
    /\ pc = "checkout_b"
    /\ \E ok \in (IF SourceBranch \in localBranches THEN {FALSE} ELSE BOOLEAN) :
        /\ Seam(<<"git", "checkout", "-b", SourceBranch>>, Answer(ok, <<>>))
        /\ IF ok
           THEN /\ localBranches' = localBranches \cup {SourceBranch}
                /\ currentBranch' = SourceBranch
                /\ branchCommits' = <<>>
                /\ safety' = [safety EXCEPT !.created = TRUE, !.returned = "True"]
                /\ Go("cherry_pick")
           ELSE SafetyFails /\ UNCHANGED <<localBranches, currentBranch, branchCommits>>
    /\ UNCHANGED <<cfgVars, botVars, tmpDirExists, repoDirExists, realRange, commit_shas, remoteBranches,
                   pickInProgress, loopVars, run_named, ssh_result, apiVars, refVars>>

-----------------------------------------------------------------------------
(* 13. cherry_pick_commits(commit_shas) *)

\* what `git cherry-pick <sha>` can answer
ConflictText == "error: could not apply; hint: after resolving the conflicts"
PickAnswer(kind) ==
    IF kind = "ok" THEN Ok(<<"picked">>)
    ELSE IF kind = "conflict"
    THEN [returncode |-> 1, stdout |-> <<"CONFLICT (content)">>, stderr |-> ConflictText]
    ELSE Err("fatal: bad object")

\* if result.returncode == 0
PickSucceeded(r) == r.returncode = 0

\* if "conflict" in error_msg.lower()
ContainsConflict(error_msg) == error_msg = ConflictText

\* the `return False` that ends the loop body of a failed commit (line 921)
HaltsNever == FALSE
HaltsOnFailure == TRUE

\* if not commit_shas: return False
EmptyListTrue == "True"
EmptyListResult == "False"

\* return success_count > 0
SequencerResult(count) == IF count > 0 THEN "True" ELSE "False"

\* the vector sent when a conflict is detected (line 911)
RollbackArgv == <<"git", "reset", "--hard", TargetBranch>>
AbortArgv == <<"git", "cherry-pick", "--abort">>

\* what a vector that exits 0 does to the commits of the checked-out branch
BranchAfter(args, commits) ==
    IF args[2] = "cherry-pick" /\ args[3] # "--abort" THEN Append(commits, args[3])
    ELSE IF args[2] = "reset" THEN <<>>
    ELSE commits

\* entry: the empty list, the dry-run listing, or the start of the loop
CherryPickEntry ==
    /\ pc = "cherry_pick"
    /\ IF commit_shas = <<>>
       THEN /\ NoCalls
            /\ seqRet' = EmptyListResult
            /\ pc' = "picked"
            /\ UNCHANGED <<i, success_count, failed_commits>>
       ELSE IF dry_run
       THEN /\ Issue(ShowCalls(commit_shas))
            /\ seqRet' = "True"
            /\ pc' = "picked"
            /\ UNCHANGED <<i, success_count, failed_commits>>
       ELSE /\ NoCalls
            /\ i' = 1
            /\ success_count' = 0
            /\ failed_commits' = <<>>
            /\ pc' = "cp_show"
            /\ UNCHANGED seqRet
    /\ UNCHANGED <<cfgVars, success, botVars, tmpDirExists, repoDirExists, realRange, commit_shas,
                   branchVars, pickVars, outcome, interrupted, seq_named, safety,
                   run_named, ssh_result, apiVars, refVars>>

\* git show -s --format=%s commit_sha
ShowCommit ==
    /\ pc = "cp_show"
    /\ Seam(<<"git", "show", "-s", "--format=%s", commit_shas[i]>>, Ok(<<"subject">>))
    /\ pc' = "cp_pick"
    /\ UNCHANGED <<cfgVars, success, botVars, tmpDirExists, repoDirExists, realRange, commit_shas,
                   branchVars, pickVars, loopVars, safety, run_named, ssh_result, apiVars, refVars>>

\* the loop goes on to the next commit, or ends with `return success_count > 0`
LoopOn(count) ==
    IF i = Len(commit_shas)
    THEN pc' = "picked" /\ seqRet' = SequencerResult(count) /\ i' = i
    ELSE pc' = "cp_show" /\ seqRet' = seqRet /\ i' = i + 1

\* the report of lines 918-920 and `return False`
Halt ==
    IF HaltsOnFailure
    THEN /\ pc' = "picked"
         /\ seqRet' = "False"
         /\ seq_named' = commit_shas[i]
         /\ i' = i
    ELSE LoopOn(success_count) /\ UNCHANGED seq_named

\* git cherry-pick commit_sha
CherryPick ==
    /\ pc = "cp_pick"
    /\ \E kind \in {"ok", "conflict", "other"} :
        LET args == <<"git", "cherry-pick", commit_shas[i]>>
            real == PickAnswer(kind)
        IN  /\ Seam(args, real)
            /\ branchCommits' = IF kind = "ok" THEN BranchAfter(args, branchCommits)
                                ELSE branchCommits
            /\ pickInProgress' = (pickInProgress \/ kind = "conflict")
            /\ IF PickSucceeded(real)
               THEN /\ success_count' = success_count + 1
                    /\ outcome' = Append(outcome, "Applied")
                    /\ LoopOn(success_count + 1)
                    /\ UNCHANGED <<failed_commits, seq_named>>
               ELSE /\ failed_commits' = Append(failed_commits, commit_shas[i])
                    /\ UNCHANGED success_count
                    /\ IF ContainsConflict(real.stderr)
                       THEN /\ outcome' = Append(outcome, "Conflicted")
                            /\ pc' = "cp_abort"
                            /\ UNCHANGED <<i, seqRet, seq_named>>
                       ELSE /\ outcome' = Append(outcome, "OtherFailure")
                            /\ Halt
    /\ UNCHANGED <<cfgVars, success, botVars, tmpDirExists, repoDirExists, realRange, commit_shas,
                   branchVars, interrupted, safety, run_named, ssh_result, apiVars, refVars>>

\* git cherry-pick --abort, then the halt
AbortCherryPick ==
    /\ pc = "cp_abort"
    /\ \E ok \in BOOLEAN :
        /\ Seam(AbortArgv, Answer(ok, <<>>))
        /\ pickInProgress' = (pickInProgress /\ ~ok)
        /\ branchCommits' = IF ok THEN BranchAfter(AbortArgv, branchCommits)
                            ELSE branchCommits
    /\ Halt
    /\ UNCHANGED <<cfgVars, success, botVars, tmpDirExists, repoDirExists, realRange, commit_shas,
                   branchVars, success_count, failed_commits, outcome, interrupted,
                   safety, run_named, ssh_result, apiVars, refVars>>

\* except KeyboardInterrupt: return False
Interrupt ==
    /\ pc \in {"cp_show", "cp_pick", "cp_abort"}
    /\ interrupted' = TRUE
    /\ seqRet' = "False"
    /\ pc' = "picked"
    /\ UNCHANGED <<cfgVars, logVars, success, botVars, tmpDirExists, repoDirExists, realRange,
                   commit_shas, branchVars, pickVars, i, success_count, failed_commits,
                   outcome, seq_named, safety, run_named, ssh_result, apiVars, refVars>>

SequencerFailedNever == FALSE
\* if not self.cherry_pick_commits(commit_shas)
SequencerFailed == seqRet = "False"

\* run(): if not self.cherry_pick_commits(commit_shas): report, return False
AfterCherryPick ==
    /\ pc = "picked"
    /\ IF SequencerFailed
       THEN run_named' = commit_shas[1] /\ Fail
       ELSE UNCHANGED run_named /\ Go("push")
    /\ UNCHANGED <<cfgVars, logVars, botVars, tmpDirExists, repoDirExists, realRange, commit_shas,
                   branchVars, pickVars, loopVars, safety, ssh_result, apiVars, refVars>>

-----------------------------------------------------------------------------
(* 14 to 16 and the exit *)

\* the remote push_changes pushes to
PushRemote == IF personal_repo THEN personal_remote_name ELSE source_remote_name

\* ssh_result.returncode == 1 and "successfully authenticated" in stderr
SshAnswer(healthy) ==
    IF healthy THEN Err("Hi! You've successfully authenticated") ELSE Err("Permission denied")
SshHealthyAlways(r) == TRUE
SshHealthy(r) == r.returncode = 1 /\ r.stderr = "Hi! You've successfully authenticated"

PushCalls(https_ok, healthy, has_url, ssh_ok) ==
    LET push == Call(<<"git", "push", "--set-upstream", PushRemote, SourceBranch>>,
                     Answer(https_ok, <<>>))
        probe == Call(<<"ssh", "-T", "git@host">>, SshAnswer(healthy))
        geturl == Call(<<"git", "remote", "get-url", PushRemote>>, Answer(has_url, <<"https-url">>))
        seturl == Call(<<"git", "remote", "set-url", PushRemote, "ssh-url">>, Ok(<<>>))
        again == Call(<<"git", "push", "--set-upstream", PushRemote, SourceBranch>>,
                      Answer(ssh_ok, <<>>))
    IN  IF https_ok THEN <<push>>
        ELSE IF ~SshHealthy(probe.real) THEN <<push, probe>>
        ELSE IF has_url THEN <<push, probe, geturl, seturl, again>>
        ELSE <<push, probe, geturl, again>>

\* the repository the URL of a remote names after setup_source_remote and
\* setup_personal_remote: repo_owner/repo_name of the pull request, personal_repo
RemoteRepo(name) == IF name = personal_remote_name THEN "personal-repo" ELSE "pr-repo"

\* the repository of _get_repo_remote_ssh_url(platform, self.personal_repo or
\* self.target_repo)
SshUrlRepo == IF personal_repo THEN "personal-repo" ELSE target_repo

\* 14. push_changes(source_branch_name)
PushChanges ==
    /\ pc = "push"
    /\ \E https_ok \in BOOLEAN, healthy \in BOOLEAN, ssh_ok \in BOOLEAN :
        IF dry_run
        THEN /\ NoCalls
             /\ Go("create_pull_request")
             /\ UNCHANGED <<remoteBranches, ssh_result, remote_urls, ssh_repo>>
        ELSE LET has_url == remote_urls[PushRemote] # "none"
                 calls == PushCalls(https_ok, healthy, has_url, ssh_ok)
                 last == calls[Len(calls)]
                 pushed == last.args[2] = "push" /\ last.real.returncode = 0
             IN  /\ Issue(calls)
                 /\ ssh_result' = IF Len(calls) > 1 THEN calls[2].real ELSE ssh_result
                 /\ remote_urls' = IF Len(calls) = 5
                                   THEN [remote_urls EXCEPT ![PushRemote] = "ssh-url"]
                                   ELSE remote_urls
                 /\ ssh_repo' = IF Len(calls) = 5 THEN SshUrlRepo ELSE ssh_repo
                 /\ remoteBranches' = IF pushed THEN remoteBranches \cup {PushRemote}
                                      ELSE remoteBranches
                 /\ IF pushed THEN Go("create_pull_request") ELSE Fail
    /\ UNCHANGED <<cfgVars, working_dir, is_temp_dir, using_existing_repo, personal_repo,
                   tmpDirExists, repoDirExists, realRange, commit_shas, localBranches,
                   currentBranch, pickVars, loopVars, safety, run_named, apiVars,
                   pr_url, parsed, target_repo>>

\* 15. create_pull_request(...), when create_pr
\* len(pr_body) + len(cherry_pick_note) < 65536, the GitHub maximum
MAX_BODY == 65536
\* "\n\n" before the tail
SeparatorLen == 2

\* cherry_pick_note: empty without a body_tail, else the separator and the tail;
\* a text is the sequence of the lengths of its parts
cherry_pick_note(tail) == IF tail > 0 THEN <<SeparatorLen, tail>> ELSE <<>>

RECURSIVE TextLen(_)
TextLen(parts) == IF parts = <<>> THEN 0 ELSE parts[1] + TextLen(Tail(parts))

\* pr_body as it is posted
PrBody(orig, tail) ==
    LET pr_body == <<orig>>
        note == cherry_pick_note(tail)
    IN  IF TextLen(pr_body) + TextLen(note) < MAX_BODY THEN pr_body \o note ELSE pr_body

\* self.personal_repo, "owner/name", when one is set
PersonalRepo == <<"me", "/", "fork">>
\* s.split(t)[0]
FirstPart(s, t) == IF Contains(s, t) THEN SplitBefore(s, t) ELSE s

\* _create_platform_pr: the head of the new pull request
PrHeadPlain(personal, source_branch) == <<source_branch>>
PrHead(personal, source_branch) ==
    IF personal
    THEN FirstPart(PersonalRepo, <<"/">>) \o <<":", source_branch>>
    ELSE <<source_branch>>

\* data = {"title": ..., "body": pr_body, "head": head, "base": target_branch}
PostData ==
    LET pr_body == PrBody(orig_body, body_tail)
    IN  [head |-> PrHead(personal_repo, SourceBranch), base |-> TargetBranch,
         body |-> pr_body, len |-> TextLen(pr_body)]

\* 15. create_pull_request(...) when create_pr: nothing is sent in dry-run or
\* without a token; the source pull request is fetched again when step 9 left no
\* pr_info, and a failure of that GET leaves run() through its except clause
CreatePullRequest ==
    /\ pc = "create_pull_request"
    /\ NoCalls
    /\ IF ~create_pr \/ dry_run
       THEN Go("finally") /\ UNCHANGED <<api_gets, pr_info, posted>>
       ELSE IF token = <<>>
       THEN Fail /\ UNCHANGED <<api_gets, pr_info, posted>>
       ELSE \E got \in BOOLEAN, created \in BOOLEAN :
               /\ api_gets' = IF pr_info = "none" THEN api_gets + 1 ELSE api_gets
               /\ UNCHANGED pr_info
               /\ IF pr_info = "none" /\ ~got
                  THEN Fail /\ UNCHANGED posted
                  ELSE /\ posted' = PostData
                       /\ IF created THEN Go("finally") ELSE Fail
    /\ UNCHANGED <<cfgVars, botVars, tmpDirExists, repoDirExists, realRange, commit_shas, branchVars,
                   pickVars, loopVars, safety, run_named, ssh_result, api_response, orig_body,
                   body_tail, refVars>>

\* remove_sensitive_remotes(): the URLs it takes for credential-bearing
SensitiveUrl(u) ==
    \/ token # <<>> /\ Contains(u, token)
    \/ StartsWith(u, HttpsScheme) /\ Contains(u, At)
\* what becomes of each remote, `git remote remove` exiting 0 or not
RemotesAfterCleanup(removed) ==
    [name \in RemoteNames |->
        IF /\ remote_urls[name] # "none"
           /\ SensitiveUrl(Text(remote_urls[name]))
           /\ removed[name]
        THEN "none" ELSE remote_urls[name]]

\* the vectors remove_sensitive_remotes hands to subprocess.run itself for one
\* remote: get-url, and remove when the URL is taken for credential-bearing
DirectCallsFor(name) ==
    <<<<"git", "remote", "get-url", name>>>>
    \o (IF remote_urls[name] # "none" /\ SensitiveUrl(Text(remote_urls[name]))
        THEN <<<<"git", "remote", "remove", name>>>>
        ELSE <<>>)

\* remotes_to_check: the source remote, then the personal remote
DirectCalls == DirectCallsFor(source_remote_name) \o DirectCallsFor(personal_remote_name)

\* 16. the finally clause (remove_sensitive_remotes in an existing repository), then
\* the return of run()
Finally ==
    /\ pc = "finally"
    /\ pc' = "returned"
    /\ success' = IF success = "none" THEN "True" ELSE success
    /\ issued' = <<>>
    /\ result' = Synthetic
    /\ realResult' = Synthetic
    /\ written' = <<>>
    /\ IF using_existing_repo /\ ~dry_run
       THEN /\ executed' = DirectCalls
            /\ \E removed \in [RemoteNames -> BOOLEAN] :
                remote_urls' = RemotesAfterCleanup(removed)
       ELSE executed' = <<>> /\ UNCHANGED remote_urls
    /\ UNCHANGED <<cfgVars, working_dir, is_temp_dir, using_existing_repo, personal_repo,
                   tmpDirExists, repoDirExists, realRange, commit_shas, branchVars,
                   pickVars, loopVars, safety, run_named, ssh_result, apiVars, refVars>>

\* os.path.exists(self.working_dir)
DirExists(dir) ==
    \/ dir = "tmp" /\ tmpDirExists
    \/ dir = "repo" /\ repoDirExists

\* cleanup(): the condition under which shutil.rmtree(self.working_dir) runs
CleanupDeletesAnyDir == working_dir # "None" /\ DirExists(working_dir) /\ ~dry_run
CleanupDeletes ==
    working_dir # "None" /\ is_temp_dir /\ DirExists(working_dir) /\ ~dry_run

\* main(): sys.exit, and __del__ runs cleanup(), which removes an owned directory
\* and the checkout in it
ExitNoCleanup ==
    /\ pc = "returned"
    /\ pc' = "exited"
    /\ UNCHANGED <<cfgVars, logVars, success, botVars, tmpDirExists, repoDirExists, realRange, commit_shas,
                   branchVars, pickVars, loopVars, safety, run_named, ssh_result, apiVars, refVars>>
Exit ==
    /\ pc = "returned"
    /\ pc' = "exited"
    /\ IF CleanupDeletes
       THEN /\ tmpDirExists' = (tmpDirExists /\ working_dir # "tmp")
            /\ repoDirExists' = (repoDirExists /\ working_dir # "repo")
            /\ localBranches' = {}
            /\ currentBranch' = "none"
            /\ branchCommits' = <<>>
            /\ pickInProgress' = FALSE
       ELSE UNCHANGED <<tmpDirExists, repoDirExists, localBranches, currentBranch, pickVars>>
    /\ UNCHANGED <<cfgVars, logVars, success, botVars, realRange, commit_shas,
                   remoteBranches, loopVars, safety, run_named, ssh_result, apiVars, refVars>>

Next ==
    \/ SetupWorkingDirectory
    \/ ParsePrUrl
    \/ CloneOrInitRepo
    \/ SetupSourceRemote
    \/ SetupPersonalRemote
    \/ GetPrInfoExtended
    \/ GetCommitsFromGit
    \/ GeneratePatchFile
    \/ GetPrInfo
    \/ CheckoutTargetBranch
    \/ CreateBranchSafe
    \/ LocalPrompt
    \/ DeleteLocalBranch
    \/ ListRemoteBranch
    \/ RemotePrompt
    \/ DeleteRemoteBranch
    \/ CheckoutBase
    \/ CreateBranch
    \/ CherryPickEntry
    \/ ShowCommit
    \/ CherryPick
    \/ AbortCherryPick
    \/ Interrupt
    \/ AfterCherryPick
    \/ PushChanges
    \/ CreatePullRequest
    \/ Finally
    \/ Exit

Spec == Init /\ [][Next]_vars

-----------------------------------------------------------------------------
(* LiveSpec: a run that may also be interrupted anywhere, and that goes on
   until the process has exited *)

\* the steps of run() outside the loop of cherry_pick_commits, which catches
\* KeyboardInterrupt itself
RunPcs ==
    {"setup", "parse", "clone", "source_remote", "personal_remote", "api", "commits",
     "patch", "pr_info", "target_branch", "create_branch_safe", "local_prompt", "branch_D",
     "ls_remote", "remote_prompt", "push_delete", "checkout_base", "checkout_b", "picked",
     "push", "create_pull_request"}

\* KeyboardInterrupt raised in run() outside cherry_pick_commits: `except
\* Exception` does not catch it, the finally clause runs, and it leaves run()
RunInterrupt ==
    /\ pc \in RunPcs
    /\ pc' = "finally"
    /\ success' = "Interrupted"
    /\ UNCHANGED <<cfgVars, logVars, botVars, tmpDirExists, repoDirExists, realRange, commit_shas,
                   branchVars, pickVars, loopVars, safety, run_named, ssh_result, apiVars, refVars>>

LiveInit ==
    /\ dry_run \in BOOLEAN
    /\ auto_confirm \in BOOLEAN
    /\ create_pr = TRUE
    /\ token = ActiveToken
    /\ url = <<>>
    /\ safe_url = <<>>
    /\ pr_url = GoodRef
    /\ parsed = NotParsed
    /\ target_repo = "pr-repo"
    /\ ssh_repo = "none"
    /\ orig_body = 1
    /\ body_tail = 1
    /\ remote_urls = NoRemotes
    /\ EmptyLogs
    /\ IdleRun
    /\ realRange \in {Range(0), Range(MaxCommits)}
    /\ localBranches = {DefaultBranch, SourceBranch}
    /\ remoteBranches \in {{}, Remotes}

LiveNext == Next \/ RunInterrupt

\* the interpreter runs one statement after another until the process has
\* exited: a step that can be taken is taken
LiveSpec == LiveInit /\ [][LiveNext]_vars /\ WF_vars(LiveNext)

-----------------------------------------------------------------------------
(* SeqSpec: cherry_pick_commits called on a branch that was just created *)

\* the lists of distinct commits, in any order
CommitLists ==
    LET shas == {Sha(k) : k \in 1..MaxCommits}
    IN  {s \in UNION {[1..n -> shas] : n \in 0..MaxCommits} :
            \A a, b \in DOMAIN s : a # b => s[a] # s[b]}

SeqInit ==
    /\ dry_run \in BOOLEAN
    /\ auto_confirm = FALSE
    /\ create_pr = FALSE
    /\ token = <<>>
    /\ url = <<>>
    /\ safe_url = <<>>
    /\ pr_url = GoodRef
    /\ parsed = NotParsed
    /\ target_repo = "pr-repo"
    /\ ssh_repo = "none"
    /\ orig_body = 1
    /\ body_tail = 1
    /\ api_gets = 0
    /\ api_response = NoResponse
    /\ pr_info = "none"
    /\ posted = NoPost
    /\ EmptyLogs
    /\ success = "none"
    /\ working_dir = "repo"
    /\ is_temp_dir = FALSE
    /\ using_existing_repo = TRUE
    /\ personal_repo = FALSE
    /\ tmpDirExists = FALSE
    /\ repoDirExists = TRUE
    /\ commit_shas \in CommitLists
    /\ realRange = commit_shas
    /\ localBranches = {DefaultBranch, TargetBranch, SourceBranch}
    /\ remoteBranches = {}
    /\ currentBranch = SourceBranch
    /\ branchCommits = <<>>
    /\ pickInProgress = FALSE
    /\ i = 0
    /\ success_count = 0
    /\ failed_commits = <<>>
    /\ outcome = <<>>
    /\ seqRet = "none"
    /\ interrupted = FALSE
    /\ safety = NoSafety
    /\ seq_named = "none"
    /\ run_named = "none"
    /\ ssh_result = NoProbe
    /\ remote_urls = NoRemotes
    /\ pc = "cherry_pick"

SeqNext ==
    \/ CherryPickEntry
    \/ ShowCommit
    \/ CherryPick
    \/ AbortCherryPick
    \/ Interrupt

SeqSpec == SeqInit /\ [][SeqNext]_vars

-----------------------------------------------------------------------------
(* UrlSpec: hide_token_in_url called on any URL with any token *)

UrlChars == {"a", "@", ":", "/"}

Strings(n) == UNION {[1..k -> UrlChars] : k \in 0..n}

Tokens == Strings(MaxTokenLen)

Urls == {scheme \o rest : scheme \in {HttpsScheme, HttpScheme}, rest \in Strings(MaxUrlLen)}

UrlInit ==
    /\ dry_run = FALSE
    /\ auto_confirm = FALSE
    /\ create_pr = FALSE
    /\ token \in Tokens
    /\ url \in Urls
    /\ safe_url = <<>>
    /\ pr_url = GoodRef
    /\ parsed = NotParsed
    /\ target_repo = "pr-repo"
    /\ ssh_repo = "none"
    /\ orig_body = 1
    /\ body_tail = 1
    /\ remote_urls = NoRemotes
    /\ EmptyLogs
    /\ IdleRun
    /\ realRange = <<>>
    /\ localBranches = {DefaultBranch}
    /\ remoteBranches = {}

\* safe_url = self.hide_token_in_url(url)
HideTokenInUrl ==
    /\ pc = "setup"
    /\ safe_url' = hide_token_in_url(token, url)
    /\ pc' = "hidden"
    /\ UNCHANGED <<dry_run, auto_confirm, create_pr, token, url, logVars, success, botVars,
                   tmpDirExists, repoDirExists, realRange, commit_shas, branchVars, pickVars, loopVars,
                   safety, run_named, ssh_result, apiVars, refVars>>

UrlNext == HideTokenInUrl

UrlSpec == UrlInit /\ [][UrlNext]_vars

-----------------------------------------------------------------------------
(* ParseSpec: run() up to parse_pr_url, on references put together from parts
   that fit a pattern and parts that do not *)

RefParts ==
    [scheme : {"https://", "http://", "ftp://"},
     host : {"github.com", "gitee.com", "atomgit.com", "gitlab.com"},
     owner : {<<>>, <<"o">>},
     repo : {<<"r">>, <<"r", ".", "x">>},
     word : {"pull", "pulls"},
     num : {<<>>, <<"1">>, <<"0", "1", "2">>},
     suffix : {<<>>, <<"x">>, <<"/", "files">>}]

Ref(p) == RefOf(p.scheme, p.host, p.owner, p.repo, p.word, p.num, p.suffix)

ParseInit ==
    /\ dry_run = TRUE
    /\ auto_confirm = FALSE
    /\ create_pr = FALSE
    /\ token = <<>>
    /\ url = <<>>
    /\ safe_url = <<>>
    /\ pr_url \in {Ref(p) : p \in RefParts}
    /\ parsed = NotParsed
    /\ target_repo = "pr-repo"
    /\ ssh_repo = "none"
    /\ orig_body = 1
    /\ body_tail = 1
    /\ remote_urls = NoRemotes
    /\ EmptyLogs
    /\ IdleRun
    /\ realRange = <<>>
    /\ localBranches = {DefaultBranch}
    /\ remoteBranches = {}

ParseNext == SetupWorkingDirectory \/ ParsePrUrl

ParseSpec == ParseInit /\ [][ParseNext]_vars

-----------------------------------------------------------------------------
(* PushSpec: run() from push_changes on, in real mode, after cherry-picks that
   all applied; run(target_repo=...) names the repository of the pull request
   or another one *)

PushInit ==
    /\ dry_run = FALSE
    /\ auto_confirm = FALSE
    /\ create_pr \in BOOLEAN
    /\ token \in {<<>>, ActiveToken}
    /\ url = <<>>
    /\ safe_url = <<>>
    /\ pr_url = GoodRef
    /\ parsed = parse_pr_url(GoodRef)
    /\ target_repo \in {"pr-repo", "other-repo"}
    /\ ssh_repo = "none"
    /\ orig_body = 1
    /\ body_tail = 1
    /\ api_gets = 1
    /\ pr_info = "none"
    /\ api_response = [ok |-> TRUE, fields |-> RequiredFields]
    /\ posted = NoPost
    /\ EmptyLogs
    /\ success = "none"
    /\ working_dir = "repo"
    /\ is_temp_dir = FALSE
    /\ using_existing_repo = TRUE
    /\ personal_repo \in BOOLEAN
    /\ tmpDirExists = FALSE
    /\ repoDirExists = TRUE
    /\ commit_shas \in {Range(n) : n \in 1..MaxCommits}
    /\ realRange = commit_shas
    /\ localBranches = {DefaultBranch, TargetBranch, SourceBranch}
    /\ remoteBranches = {}
    /\ currentBranch = SourceBranch
    /\ branchCommits = commit_shas
    /\ pickInProgress = FALSE
    /\ i = Len(commit_shas)
    /\ success_count = Len(commit_shas)
    /\ failed_commits = <<>>
    /\ outcome = [k \in 1..Len(commit_shas) |-> "Applied"]
    /\ seqRet = "True"
    /\ interrupted = FALSE
    /\ safety = [NoSafety EXCEPT !.created = TRUE, !.returned = "True"]
    /\ seq_named = "none"
    /\ run_named = "none"
    /\ ssh_result = NoProbe
    /\ remote_urls = [name \in RemoteNames |->
                        IF name = source_remote_name \/ personal_repo
                        THEN "https-url" ELSE "none"]
    /\ pc = "push"

PushNext == PushChanges \/ CreatePullRequest \/ Finally

PushSpec == PushInit /\ [][PushNext]_vars

-----------------------------------------------------------------------------
(* PrSpec: create_pull_request called after a push, on a source pull request
   and a body_tail of any length around the maximum *)

BodyLens == {0} \cup ((MAX_BODY - SeparatorLen - MaxTail - 1)..(MAX_BODY + 1))
TailLens == 0..MaxTail

PrInit ==
    /\ dry_run = FALSE
    /\ auto_confirm = FALSE
    /\ create_pr = TRUE
    /\ token \in {<<>>, ActiveToken}
    /\ url = <<>>
    /\ safe_url = <<>>
    /\ pr_url = GoodRef
    /\ parsed = NotParsed
    /\ target_repo = "pr-repo"
    /\ ssh_repo = "none"
    /\ orig_body \in BodyLens
    /\ body_tail \in TailLens
    /\ api_gets \in {1, 2}
    /\ pr_info = IF api_gets = 2 THEN "fetched" ELSE "none"
    /\ api_response = [ok |-> TRUE, fields |-> RequiredFields]
    /\ posted = NoPost
    /\ EmptyLogs
    /\ success = "none"
    /\ working_dir = "repo"
    /\ is_temp_dir = FALSE
    /\ using_existing_repo = TRUE
    /\ personal_repo \in BOOLEAN
    /\ tmpDirExists = FALSE
    /\ repoDirExists = TRUE
    /\ commit_shas = Range(1)
    /\ realRange = commit_shas
    /\ localBranches = {DefaultBranch, TargetBranch, SourceBranch}
    /\ remoteBranches = {PushRemote}
    /\ currentBranch = SourceBranch
    /\ branchCommits = commit_shas
    /\ pickInProgress = FALSE
    /\ i = 1
    /\ success_count = 1
    /\ failed_commits = <<>>
    /\ outcome = <<"Applied">>
    /\ seqRet = "True"
    /\ interrupted = FALSE
    /\ safety = [NoSafety EXCEPT !.created = TRUE, !.returned = "True"]
    /\ seq_named = "none"
    /\ run_named = "none"
    /\ ssh_result = NoProbe
    /\ remote_urls = [NoRemotes EXCEPT ![PushRemote] = "https-url"]
    /\ pc = "create_pull_request"

PrNext == CreatePullRequest

PrSpec == PrInit /\ [][PrNext]_vars

-----------------------------------------------------------------------------
(* Properties *)

SeqValues(s) == {s[k] : k \in DOMAIN s}
LastOf(s) == s[Len(s)]

\* checkout, checkout -b, cherry-pick, cherry-pick --abort, push, branch -D
IsMutatingArgv(args) ==
    /\ Len(args) > 1
    /\ args[1] = "git"
    /\ \/ args[2] \in {"checkout", "cherry-pick", "push"}
       \/ args[2] = "branch" /\ Len(args) > 2 /\ args[3] = "-D"

\* log, show, diff, status, branch listing, rev-parse, symbolic-ref, ls-remote,
\* merge-base; clone, remote, fetch
IsReadOrSetupArgv(args) ==
    /\ Len(args) > 1
    /\ args[1] = "git"
    /\ \/ args[2] \in {"log", "show", "diff", "status", "rev-parse", "symbolic-ref",
                       "ls-remote", "merge-base", "clone", "remote", "fetch"}
       \/ args[2] = "branch" /\ ~(Len(args) > 2 /\ args[3] = "-D")

\* C1: with dry_run set, whatever the sequence of invocations, no mutating vector
\* is among those subprocess.run executed, and a mutating invocation returns the
\* synthetic success.
C1_NoMutationInRehearsal ==
    dry_run =>
        /\ \A k \in DOMAIN executed : ~IsMutatingArgv(executed[k])
        /\ (issued # <<>> /\ IsMutatingArgv(LastOf(issued))) => result = Synthetic

C1_Witness ==
    /\ dry_run
    /\ Len(issued) = 2
    /\ issued[1] = <<"git", "branch", "-D", "b">>
    /\ issued[2] = <<"git", "push", "--set-upstream", "r", "b">>
    /\ realResult.returncode = 1
    /\ result = Synthetic
    /\ executed = <<>>

\* C2: with dry_run set, an invocation whose verb is read-only or
\* environment-setting is executed for real and its real result is returned.
C2_ReadOnlyRunsForReal ==
    (dry_run /\ issued # <<>> /\ IsReadOrSetupArgv(LastOf(issued))) =>
        /\ executed # <<>>
        /\ LastOf(executed) = LastOf(issued)
        /\ result = realResult

\* C3: with dry_run set, the commit list the run reports and plans to replay is
\* the real base..head list.
C3_RehearsalListIsReal ==
    (dry_run /\ commit_shas # <<>>) => commit_shas = realRange

\* the shas of the `git cherry-pick <sha>` invocations of the log
PickedShas(log) ==
    LET picks == SelectSeq(log, LAMBDA a : a[2] = "cherry-pick" /\ a[3] # "--abort")
    IN  [k \in 1..Len(picks) |-> picks[k][3]]

SeqPcs == {"cp_show", "cp_pick", "cp_abort", "picked"}

\* C4: the cherry-picks issued are a prefix of commit_shas, in its order; every
\* commit before the last one attempted was Applied, so nothing is attempted after
\* a failure; success is returned only after every commit was attempted.
C4_InOrderHaltAtFirstFailure ==
    (~dry_run /\ pc \in SeqPcs) =>
        LET picks == PickedShas(issued)
        IN  /\ Len(picks) <= Len(commit_shas)
            /\ picks = SubSeq(commit_shas, 1, Len(picks))
            /\ Len(outcome) = Len(picks)
            /\ \A k \in 1..(Len(outcome) - 1) : outcome[k] = "Applied"
            /\ (pc = "picked" /\ seqRet = "True") => Len(picks) = Len(commit_shas)

C4_Witness ==
    /\ ~dry_run
    /\ pc = "picked"
    /\ commit_shas = <<"c1", "c2", "c3">>
    /\ outcome = <<"Applied", "Conflicted">>
    /\ PickedShas(issued) = <<"c1", "c2">>
    /\ branchCommits = <<"c1">>
    /\ ~pickInProgress
    /\ seqRet = "False"

\* C5: when cherry_pick_commits has returned and a commit ended Conflicted, the
\* abort was issued and no cherry-pick is in progress.
C5_ConflictAlwaysAborted ==
    (pc = "picked" /\ "Conflicted" \in SeqValues(outcome)) =>
        /\ AbortArgv \in SeqValues(issued)
        /\ ~pickInProgress

\* C6: when a KeyboardInterrupt ended cherry_pick_commits, no cherry-pick is left
\* in progress in the working tree.
C6_InterruptLeavesNoPick ==
    (pc = "picked" /\ interrupted) => ~pickInProgress

\* C7: in real mode cherry_pick_commits returns True only for a non-empty list
\* of which every commit is Applied and on the branch.
C7_SuccessOnlyIfAllApplied ==
    (~dry_run /\ seqRet = "True") =>
        /\ commit_shas # <<>>
        /\ Len(outcome) = Len(commit_shas)
        /\ \A k \in DOMAIN outcome : outcome[k] = "Applied"
        /\ branchCommits = commit_shas

C7_Witness ==
    /\ ~dry_run
    /\ seqRet = "True"
    /\ pc = "picked"
    /\ commit_shas = <<"c2", "c1", "c3">>
    /\ branchCommits = commit_shas

\* C8: from the halt of the sequencer until run() has returned, the new branch
\* exists, is checked out and holds exactly the commits that were Applied.
C8_NoRollbackOnHalt ==
    (~dry_run /\ seqRet = "False" /\ pc \in {"picked", "finally", "returned"}) =>
        /\ branchCommits = SubSeq(commit_shas, 1, success_count)
        /\ SourceBranch \in localBranches
        /\ currentBranch = SourceBranch

C8_Witness ==
    /\ ~dry_run
    /\ pc = "returned"
    /\ success = "False"
    /\ seqRet = "False"
    /\ outcome = <<"Applied", "Applied", "Conflicted">>
    /\ branchCommits = <<"c1", "c2">>
    /\ ~pickInProgress

\* C9: the commit run()'s failure report names is the first commit that is not
\* Applied.
C9_RunNamesFirstNonApplied ==
    run_named # "none" => run_named = commit_shas[success_count + 1]

\* C10: with auto_confirm and a colliding local and remote branch, a
\* created branch means both were deleted; a refusal means no branch and failure.
C10_BothDeletedBeforeCreate ==
    /\ (safety.created /\ auto_confirm /\ safety.hadLocal /\ safety.hadRemote) =>
            (safety.deletedLocal /\ safety.deletedRemote)
    /\ safety.refused => (~safety.created /\ safety.returned = "False")

\* the vectors of the log that name the new branch on a remote: the listing and
\* the deletion of delete_existing_branch
SafetyRemoteArgvs(log) ==
    SelectSeq(log, LAMBDA a : \/ a[2] = "ls-remote" /\ a[5] = SourceBranch
                              \/ a[2] = "push" /\ a[4] = ":" \o SourceBranch)

\* the remote such a vector names
RemoteOf(a) == IF a[2] = "ls-remote" THEN a[4] ELSE a[3]

\* C11: the remote on which delete_existing_branch lists and deletes the branch
\* is the remote push_changes pushes to: the personal remote when a personal
\* repository is configured, otherwise the source remote.
C11_CheckedRemoteIsPushRemote ==
    \A k \in DOMAIN SafetyRemoteArgvs(issued) :
        RemoteOf(SafetyRemoteArgvs(issued)[k]) = PushRemote

SafetyPcs == {"local_prompt", "branch_D", "ls_remote", "remote_prompt", "push_delete",
              "checkout_base", "checkout_b"}

\* C12: in real mode a checkout of create_branch_safe is issued only after the
\* local check and the remote listing, with what they found deleted; and once
\* create_branch_safe has returned False, run() has returned False or is about
\* to, no branch was created and no cherry-pick, push or PR step was taken.
C12_CreateOnlyAfterChecks ==
    /\ pc \in SafetyPcs =>
            \A k \in DOMAIN issued :
                issued[k][2] = "checkout" =>
                    /\ \E j \in 1..(k - 1) : issued[j][2] = "show-ref"
                    /\ \E j \in 1..(k - 1) : issued[j][2] = "ls-remote"
                    /\ safety.hadLocal => safety.deletedLocal
                    /\ (safety.hadRemote /\ safety.listed) => safety.deletedRemote
    /\ safety.created =>
            /\ safety.hadLocal => safety.deletedLocal
            /\ (safety.hadRemote /\ safety.listed) => safety.deletedRemote
    /\ safety.returned = "False" =>
            /\ ~safety.created
            /\ success = "False"
            /\ pc \in {"finally", "returned", "exited"}
            /\ seqRet = "none"
            /\ outcome = <<>>
            /\ branchCommits = <<>>
            /\ run_named = "none"

C12_Witness ==
    /\ pc = "finally"
    /\ issued # <<>>
    /\ safety.returned = "False"
    /\ safety.deletedLocal
    /\ safety.deletedRemote
    /\ ~safety.refused
    /\ LastOf(issued) = <<"git", "checkout", TargetBranch>>

\* the attempts of the operation a log belongs to: its clones, its `git remote
\* add/set-url` of setup_remote, or its pushes of the branch
IsPushLog(log) == \E k \in DOMAIN log : log[k][2] = "push" /\ log[k][3] = "--set-upstream"
IsCloneLog(log) == \E k \in DOMAIN log : log[k][2] = "clone"
IsSetupRemoteLog(log) ==
    /\ ~IsPushLog(log)
    /\ \E k \in DOMAIN log : log[k][2] = "remote" /\ log[k][3] \in {"add", "set-url"}
Attempts(log) ==
    IF IsPushLog(log)
    THEN SelectSeq(log, LAMBDA a : a[2] = "push" /\ a[3] = "--set-upstream")
    ELSE IF IsCloneLog(log)
    THEN SelectSeq(log, LAMBDA a : a[2] = "clone")
    ELSE SelectSeq(log, LAMBDA a : a[2] = "remote" /\ a[3] \in {"add", "set-url"})

\* the operation of the log was declared failed: run() is returning False right
\* after it, or the personal remote was given up
DeclaredFailed ==
    \/ pc = "finally" /\ success = "False" /\ safety.returned = "none" /\ seqRet = "none"
          /\ (IsCloneLog(issued) \/ IsSetupRemoteLog(issued))
    \/ pc = "finally" /\ success = "False" /\ IsPushLog(issued)
    \/ pc = "api" /\ IsSetupRemoteLog(issued) /\ ~personal_repo

\* a clone or a remote registration: at most two attempts, HTTPS then SSH
TwoAttemptsHttpsThenSsh(log) ==
    (IsCloneLog(log) \/ IsSetupRemoteLog(log)) =>
        LET att == Attempts(log)
        IN  /\ Len(att) <= 2
            /\ "https-url" \in SeqValues(att[1])
            /\ Len(att) = 2 => "ssh-url" \in SeqValues(att[2])

\* C13 as claimed: each operation makes at most two attempts, the second in SSH
\* form, and is declared failed only after the SSH attempt.
C13_OneSshRetryAlways ==
    /\ TwoAttemptsHttpsThenSsh(issued)
    /\ Len(Attempts(issued)) <= 2
    /\ (IsPushLog(issued) /\ Len(Attempts(issued)) = 2) =>
            <<"git", "remote", "set-url", PushRemote, "ssh-url">> \in SeqValues(issued)
    /\ DeclaredFailed => Len(Attempts(issued)) = 2

\* C13 as amended: as claimed for clone and remote registration; a push is
\* retried once only when the SSH probe reports a healthy setup, after the remote
\* was switched to the SSH URL when its URL could be read, and is declared
\* failed without a retry when the probe does not.
C13_OneSshRetryUnlessProbeFails ==
    /\ TwoAttemptsHttpsThenSsh(issued)
    /\ Len(Attempts(issued)) <= 2
    /\ (DeclaredFailed /\ ~IsPushLog(issued)) => Len(Attempts(issued)) = 2
    /\ (IsPushLog(issued) /\ Len(Attempts(issued)) = 2) =>
            /\ issued[1] = Attempts(issued)[1]
            /\ issued[2][1] = "ssh"
            /\ issued[3] = <<"git", "remote", "get-url", PushRemote>>
            /\ Len(issued) = 5 =>
                    issued[4] = <<"git", "remote", "set-url", PushRemote, "ssh-url">>
            /\ LastOf(issued) = Attempts(issued)[2]
    /\ (DeclaredFailed /\ IsPushLog(issued)) =>
            \/ Len(Attempts(issued)) = 2 /\ result.returncode # 0
            \/ /\ Len(issued) = 2
               /\ issued[2][1] = "ssh"
               /\ ~SshHealthy(result)

C13_Witness ==
    /\ pc = "finally"
    /\ success = "False"
    /\ Len(issued) = 5
    /\ IsPushLog(issued)
    /\ Len(Attempts(issued)) = 2
    /\ issued[4] = <<"git", "remote", "set-url", PushRemote, "ssh-url">>
    /\ result.returncode # 0

\* C14: push_changes probes SSH right after a failed HTTPS push and before any
\* second push; when the probe does not report a healthy setup there is no
\* second push, no `git remote set-url`, and push_changes returns False.
C14_UnhealthyProbeNoSshPush ==
    IsPushLog(issued) =>
        /\ Len(issued) > 1 <=> ssh_result # NoProbe
        /\ Len(issued) > 1 => issued[2] = <<"ssh", "-T", "git@host">>
        /\ Len(Attempts(issued)) = 2 => ssh_result = SshAnswer(TRUE)
        /\ ssh_result = SshAnswer(FALSE) =>
                /\ issued = << <<"git", "push", "--set-upstream", PushRemote, SourceBranch>>,
                               <<"ssh", "-T", "git@host">> >>
                /\ pc = "finally"
                /\ success = "False"

C14_Witness ==
    /\ IsPushLog(issued)
    /\ ssh_result = SshAnswer(FALSE)
    /\ pc = "finally"
    /\ success = "False"
    /\ Len(issued) = 2

\* the positions of run() before get_commits_from_git has returned
BeforeCommitsPcs == {"setup", "parse", "clone", "source_remote", "personal_remote",
                     "api", "commits"}

\* C15: run() returns True only with a non-empty commit list, and when base..head
\* holds no commit the run goes no further than resolving the range: it returns
\* False with no branch created and no cherry-pick, push or PR step taken.
C15_EmptyRangeIsFatal ==
    /\ success = "True" => commit_shas # <<>>
    /\ (realRange = <<>> /\ pc \notin BeforeCommitsPcs) =>
            /\ success = "False"
            /\ pc \in {"finally", "returned", "exited"}
            /\ safety.returned = "none"
            /\ seqRet = "none"

\* C16: the list get_commits_from_git returned is the range base..head, oldest
\* first, nothing missing and nothing twice, and its reversal is the newest-first
\* listing of `git log`.
C16_ListIsRangeOldestFirst ==
    (pc \notin BeforeCommitsPcs /\ commit_shas # <<>>) =>
        /\ commit_shas = realRange
        /\ \A a, b \in DOMAIN commit_shas : a # b => commit_shas[a] # commit_shas[b]
        /\ Reversed(commit_shas) = Reversed(realRange)

\* the words of the command line run_git_command prints
DryRunEcho(dry, args) == IF dry THEN args ELSE <<>>

\* C17: no command line the run echoes holds the token.
C17_NoTokenInMessages ==
    token # <<>> =>
        \A k \in DOMAIN issued :
            \A w \in DOMAIN DryRunEcho(dry_run, issued[k]) :
                ~Contains(Text(issued[k][w]), token)

\* the userinfo of a URL: what stands between "://" and the last "@" of the
\* authority, the authority ending at the first "/"
Authority(u) ==
    LET rest == SplitAfter(u, SchemeSep)
    IN  IF Contains(rest, <<"/">>) THEN SplitBefore(rest, <<"/">>) ELSE rest
HasUserinfo(u) == Contains(Authority(u), At)
Userinfo(u) ==
    LET auth == Authority(u)
        last == CHOOSE k \in DOMAIN auth :
                    auth[k] = "@" /\ \A j \in (k + 1)..Len(auth) : auth[j] # "@"
    IN  SubSeq(auth, 1, last - 1)

\* C18: for a URL that holds the token, what hide_token_in_url returns holds
\* neither the token nor the URL's userinfo as it was.
C18_NeitherTokenNorUserinfo ==
    (pc = "hidden" /\ token # <<>> /\ Contains(url, token)) =>
        /\ ~Contains(safe_url, token)
        /\ (HasUserinfo(url) /\ Userinfo(url) # <<>> /\ ~Contains(Userinfo(url), At)) =>
                ~Contains(safe_url, SchemeSep \o Userinfo(url) \o At)

C20_NoSensitiveRemoteLeft ==
    (using_existing_repo /\ pc \in {"returned", "exited"}) =>
        \A name \in RemoteNames :
            remote_urls[name] = "none" \/ ~SensitiveUrl(Text(remote_urls[name]))

\* C21: no step deletes the repository the caller handed over, and a directory
\* that disappears is the one the run made for itself with mkdtemp.
C21_AdoptedDirNeverDeleted ==
    [][/\ repoDirExists => repoDirExists'
       /\ (tmpDirExists /\ ~tmpDirExists') => (is_temp_dir /\ working_dir = "tmp")]_vars

C21_Witness ==
    /\ pc = "exited"
    /\ using_existing_repo
    /\ working_dir = "repo"
    /\ ~dry_run
    /\ repoDirExists

\* C22: a setup step for which mkdtemp works succeeds and leaves the working
\* directory on the chosen directory: with no path, or a path that is not a
\* repository or does not exist, a directory of its own, marked owned; with a
\* repository, that repository, marked existing-repo mode.
SetupPost(repo_path) ==
    /\ pc = "parse"
    /\ IF repo_path = "repo"
       THEN working_dir = "repo" /\ using_existing_repo /\ ~is_temp_dir /\ repoDirExists
       ELSE working_dir = "tmp" /\ is_temp_dir /\ ~using_existing_repo /\ tmpDirExists

C22_SetupChoosesDirectory ==
    [][\A repo_path \in RepoPaths :
          (pc = "setup" /\ setup_working_directory(repo_path, TRUE)) => SetupPost(repo_path)']_vars

\* C23: in a repository of the caller, a remote that was defined before the run
\* keeps its URL through every step of the run and its teardown (no step ever
\* sets a URL back, so a remote changed once stays changed), and once run() has
\* ended no remote holds a URL with the token or userinfo.
C23_RemotesOfCallerUnchanged ==
    /\ [][\A name \in RemoteNames :
            (using_existing_repo /\ remote_urls[name] = "old-url")
                => remote_urls'[name] = "old-url"]_vars
    /\ [](using_existing_repo /\ pc = "exited" =>
            \A name \in RemoteNames : ~SensitiveUrl(Text(remote_urls[name])))

EndPcs == {"finally", "returned", "exited"}

\* C24: a real run that has deleted the branch on the remote, or pushed it, is a
\* run whose local steps all succeeded: the base was checked out, the branch
\* created, and every commit cherry-picked.
C24_RemoteTouchedOnlyAfterLocalSuccess ==
    (pc \in EndPcs /\ ~dry_run /\ safety.deletedRemote) =>
        (safety.created /\ seqRet = "True")

\* sys.exit(0 if success else 1)
ExitCode == IF success = "True" THEN 0 ELSE 1

\* the personal remote could not be registered, over HTTPS or over SSH
PersonalRemoteFailed ==
    /\ pc = "api"
    /\ IsSetupRemoteLog(issued)
    /\ Len(Attempts(issued)) = 2
    /\ result.returncode # 0
    /\ ~dry_run

\* C25: once a step has failed no later step runs; success is reported only when
\* every step that ran succeeded, the fetch of the source pull request before the
\* target checkout included; and the exit code is 0 exactly when run() reported
\* success.
C25_FailureEndsTheRun ==
    /\ ~PersonalRemoteFailed
    /\ (pc \in {"returned", "exited"} /\ success = "True" /\ create_pr /\ ~dry_run)
            => pr_info = "fetched"
    /\ pc = "exited" => (ExitCode = 0 <=> success = "True")

\* C26: the body of the POST is never longer than the maximum.
C26_BodyWithinMaximum ==
    posted # NoPost => posted.len <= MAX_BODY

\* C27: the tail is left out exactly when body, separator and tail together are
\* longer than the maximum, and the body posted starts with the original body.
C27_TailOmittedOnlyWhenTooLong ==
    posted # NoPost =>
        /\ posted.body[1] = orig_body
        /\ IF body_tail > 0 /\ orig_body + SeparatorLen + body_tail <= MAX_BODY
           THEN posted.body = <<orig_body, SeparatorLen, body_tail>>
           ELSE posted.body = <<orig_body>>

\* C28: a run sends at most one GET of the pull-request endpoint.
C28_OneGetPerRun ==
    api_gets <= 1

\* C29: when the endpoint answers non-2xx, or 2xx without one of head ref, base
\* ref, head commit, base commit, the run ends in failure: no range is resolved,
\* no branch created, no commit cherry-picked, nothing pushed or posted.
C29_BadMetadataEndsTheRun ==
    (api_response # NoResponse
        /\ (~api_response.ok \/ api_response.fields # RequiredFields)) =>
            /\ pc \in EndPcs
            /\ success = "False"
            /\ commit_shas = <<>>
            /\ safety = NoSafety
            /\ seqRet = "none"
            /\ outcome = <<>>
            /\ issued = <<>>
            /\ posted = NoPost
            /\ api_gets = 1

C29_Witness ==
    /\ pc = "exited"
    /\ api_response.ok
    /\ api_response.fields = RequiredFields \ {"base.sha"}
    /\ success = "False"

\* C30: the POST names as head owner:branch, the owner being the part of the
\* personal repository before the slash, when the branch was published to the
\* personal remote, and the plain branch otherwise; its base is the target branch.
C30_HeadQualifiedForFork ==
    posted # NoPost =>
        /\ posted.base = TargetBranch
        /\ posted.head = IF PushRemote = personal_remote_name
                         THEN <<"me", ":", SourceBranch>>
                         ELSE <<SourceBranch>>

C30_Witness ==
    /\ posted # NoPost
    /\ personal_repo
    /\ pc = "exited"
    /\ success = "True"

\* the parts fit one of the three shapes: http or https, a supported host with
\* its word, an owner, a repository, a number, and nothing after it
Supported(p) ==
    /\ p.scheme \in {"https://", "http://"}
    /\ \E k \in DOMAIN Patterns : p.host = Patterns[k].host /\ p.word = Patterns[k].word
    /\ p.owner # <<>>
    /\ p.repo # <<>>
    /\ p.num # <<>>
    /\ p.suffix = <<>>

\* C31: a reference of a supported shape is parsed into its platform, owner,
\* repository and number, and any other reference raises ValueError.
C31_ParseExactlyTheShapes ==
    parsed # NotParsed =>
        \A p \in RefParts :
            pr_url = Ref(p) =>
                IF Supported(p)
                THEN parsed = [platform |-> Patterns[CHOOSE k \in DOMAIN Patterns :
                                                        Patterns[k].host = p.host].platform,
                               owner |-> p.owner, repo |-> p.repo, number |-> ToInt(p.num)]
                ELSE parsed = ValueError

\* C39: is_temp_dir and using_existing_repo are never both true, and whenever
\* one of them is true the working directory is set.
C39_FlagsExcludeAndImplyDirectory ==
    /\ ~(is_temp_dir /\ using_existing_repo)
    /\ (is_temp_dir \/ using_existing_repo) => working_dir # "None"

C39_Witness ==
    /\ pc = "parse"
    /\ using_existing_repo
    /\ ~is_temp_dir
    /\ working_dir = "repo"

PatchFilesWritten == SelectSeq(written, LAMBDA f : f.kind = "file")

\* what C32 expects of a patch generation that returned True, by target shape
PatchPost(shape) ==
    LET n == Len(commit_shas)
        files == PatchFilesWritten
    IN  /\ n = 1 => Len(files) = 1 /\ files[1].commits = commit_shas
        /\ (n > 1 /\ shape = "dir") =>
              /\ Len(files) = n
              /\ \A k \in 1..n : /\ files[k].commits = <<commit_shas[k]>>
                                 /\ files[k].index = <<0, 0, 0, k>>
        /\ (n > 1 /\ shape = "file") =>
              /\ Len(files) = 1
              /\ files[1].commits = commit_shas

\* C32: a patch generation that succeeds writes one file for one commit, one
\* file per commit with the zero-padded replay index for a directory-shaped
\* target, and one file with the patches of the whole list for a file target.
C32_PatchFilesPerShape ==
    [][\A shape \in {"file", "dir"}, dir_exists \in BOOLEAN :
          (pc = "patch" /\ ~dry_run /\ generate_patch_file(shape, TRUE, dir_exists))
              => PatchPost(shape)']_vars

C32_Witness ==
    /\ pc = "pr_info"
    /\ ~dry_run
    /\ Len(commit_shas) = MaxCommits
    /\ Len(PatchFilesWritten) = 1
    /\ PatchFilesWritten[1].commits = commit_shas

\* C34: every vector the git executable ran was handed to run_git_command.
C34_EveryInvocationThroughTheSeam ==
    \A k \in DOMAIN executed : \E j \in DOMAIN issued : issued[j] = executed[k]

\* a `git push --set-upstream <remote> <branch>` of push_changes
IsBranchPush(argv) == Len(argv) > 2 /\ argv[2] = "push" /\ argv[3] = "--set-upstream"

\* C35: the branch is pushed only when every commit of the list was applied,
\* and the POST that creates the pull request is sent only when the last push
\* of push_changes succeeded.
C35_PushAfterPicksPrAfterPush ==
    [][/\ (\E k \in DOMAIN issued' : IsBranchPush(issued'[k])) =>
            /\ seqRet' = "True"
            /\ Len(outcome') = Len(commit_shas')
            /\ \A k \in DOMAIN outcome' : outcome'[k] = "Applied"
       /\ (posted = NoPost /\ posted' # NoPost) =>
            /\ issued # <<>>
            /\ IsBranchPush(issued[Len(issued)])
            /\ result.returncode = 0]_vars

C35_Witness ==
    /\ posted # NoPost
    /\ seqRet = "True"
    /\ Len(commit_shas) > 1

\* C38: in dry-run no step sends the POST that creates the pull request, writes
\* a patch file or creates a patch directory, or creates or deletes a working
\* directory.
C38_RehearsalWritesNothing ==
    [][dry_run =>
          /\ posted' = NoPost
          /\ written' = <<>>
          /\ tmpDirExists' = tmpDirExists
          /\ repoDirExists' = repoDirExists
          /\ working_dir' = "None"]_vars

C38_Witness ==
    /\ dry_run
    /\ create_pr
    /\ pc = "returned"
    /\ success = "True"
    /\ posted = NoPost
    /\ ~tmpDirExists

\* C33: when create_branch_safe has returned True, the branch of the chosen
\* name exists in the local checkout and on the remote the function works with.
C33_BranchLocalAndRemoteAfterSafety ==
    (pc = "cherry_pick" /\ safety.returned = "True") =>
        /\ SourceBranch \in localBranches
        /\ remote_to_check \in remoteBranches

\* C36: when push_changes rewrites the URL of the remote to its SSH form, the
\* new URL names the repository the remote named before.
C36_SshUrlNamesSameRepository ==
    ssh_repo # "none" => ssh_repo = RemoteRepo(PushRemote)

\* C37: after a failed setup of the personal remote the run goes on without a
\* personal repository; the remote delete_existing_branch checks, the remote
\* push_changes pushes to and the head of the POST agree: the head is
\* owner:branch exactly when the push went to the personal remote.
C37_CheckPushAndHeadAgree ==
    /\ PersonalRemoteFailed => ~personal_repo
    /\ \A k \in DOMAIN issued :
          IsBranchPush(issued[k]) => issued[k][4] = PushRemote
    /\ posted # NoPost =>
          (posted.head = <<"me", ":", SourceBranch>> <=> PushRemote = personal_remote_name)
    /\ \A k \in DOMAIN SafetyRemoteArgvs(issued) :
          RemoteOf(SafetyRemoteArgvs(issued)[k]) = PushRemote

====
